---------------------------- MODULE Spec2Model ----------------------------
(***************************************************************************)
(* Verification model of the supply-chain risk simulator:                  *)
(*   src/dependency_graph.py   DependencyGraph  (store, queries,           *)
(*                             simulate_attack_propagation)                *)
(*   src/analysis_metrics.py   RiskAnalyzer.calculate_supply_chain_risk_score *)
(*                                                                         *)
(* Conventions                                                             *)
(*   - A Python str is a sequence of one-character strings, so that        *)
(*     f-string concatenation and the substring test `a in b` are computed.*)
(*   - Optional[datetime] is <<>> (None) or <<t>>, t a day number.         *)
(*   - Floats are exact rationals carried as scaled integers; the scale is *)
(*     stated at each operator.                                            *)
(*   - Lists returned by the queries are modelled as sets (every element   *)
(*     occurs once in them).                                               *)
(*   - compromised_timeline and detection_events are lists in the code;    *)
(*     their events are pairwise distinct (one per source/dependent pair   *)
(*     and day, one per component and day), so they are kept as sets: the  *)
(*     order inside a day, which follows Python's set iteration, is not    *)
(*     modelled.                                                           *)
(*   - The nodes of self.graph are always the keys of self.components      *)
(*     (add_component is the only writer of both), so `id in self.graph`   *)
(*     is DOMAIN components.                                               *)
(***************************************************************************)
EXTENDS Integers, Sequences, FiniteSets, TLC

\* ------------------------------------------------------------------------
\* Bounds of the model
\* ------------------------------------------------------------------------

\* Largest simulation_days a caller passes to simulate_attack_propagation.
MaxDays == 2

\* ------------------------------------------------------------------------
\* Python values
\* ------------------------------------------------------------------------

None == <<>>

Some(t) == <<t>>

\* f"{a}:{b}"
Join(a, b) == a \o <<":">> \o b

\* Python's `sub in s` for two str values
Contains(sub, s) ==
    \E i \in 1..(Len(s) - Len(sub) + 1) : SubSeq(s, i, i + Len(sub) - 1) = sub

\* SoftwareComponent.__post_init__: self.id = f"{self.name}:{self.version}"
ComponentId(c) == Join(c.name, c.version)

\* SoftwareComponent(name, version, software_type, criticality_score=...):
\* the dataclass defaults is_compromised=False, compromise_time=None.
SoftwareComponent(name, version, software_type, criticality_score) ==
    [name |-> name, version |-> version, software_type |-> software_type,
     is_compromised |-> FALSE, compromise_time |-> None,
     criticality_score |-> criticality_score]

\* Vulnerability(cve_id, severity, discovery_date, patch_available,
\* exploit_probability); exploit_probability is in tenths.
Vulnerability(cve_id, severity, discovery_date, patch_available, exploit_probability) ==
    [cve_id |-> cve_id, severity |-> severity, discovery_date |-> discovery_date,
     patch_available |-> patch_available, exploit_probability |-> exploit_probability]

\* ------------------------------------------------------------------------
\* Inputs the callers draw from
\* ------------------------------------------------------------------------

\* Component objects handed to add_component.  "c:1" is a substring of
\* "c:10"; "a:1" comes in two versions of the object (criticality 10 and a
\* negative criticality: the store enforces no range).
ComponentInputs ==
    { SoftwareComponent(<<"c">>, <<"1">>, "library", 2),
      SoftwareComponent(<<"c">>, <<"1", "0">>, "application", 5),
      SoftwareComponent(<<"a">>, <<"1">>, "application", 10),
      SoftwareComponent(<<"a">>, <<"1">>, "application", -4) }

IdC == <<"c", ":", "1">>

IdB == <<"c", ":", "1", "0">>

IdA == <<"a", ":", "1">>

Ids == { ComponentId(c) : c \in ComponentInputs }

\* (dependent_id, dependency_id) pairs handed to add_dependency: the chain
\* C <- B <- A, the edge closing a cycle, and a self-dependency.
DependencyInputs ==
    { <<IdB, IdC>>, <<IdA, IdB>>, <<IdC, IdA>>, <<IdC, IdC>> }

DependencyTypes == { "direct" }

\* (component_id, Vulnerability) pairs handed to add_vulnerability: a
\* zero-day on "c:10" and a patched vulnerability on "c:1".
VulnerabilityInputs ==
    { <<IdB, Vulnerability(<<"X">>, "critical", 1, FALSE, 4)>>,
      <<IdC, Vulnerability(<<"Y">>, "low", 2, TRUE, 10)>> }

\* Keyword arguments of a query call: the keywords passed (names) and their
\* values.  Callers pass none, direct_only=True, or max_depth=d.
QueryKeywords ==
    { [names |-> {}, direct_only |-> FALSE, max_depth |-> 0],
      [names |-> {"direct_only"}, direct_only |-> TRUE, max_depth |-> 0],
      [names |-> {"max_depth"}, direct_only |-> FALSE, max_depth |-> 1] }

\* datetime.now() at the start of a simulation run
StartTimes == { 10 }

DetectionProbabilities == { 0, 1 }

\* ------------------------------------------------------------------------
\* State
\* ------------------------------------------------------------------------

VARIABLES
    components,       \* self.components: id -> SoftwareComponent
    graph_edges,      \* self.graph: <<u, v>> -> dependency_type (u is depended upon by v)
    vulnerabilities,  \* self.vulnerabilities: "id:cve" -> Vulnerability
    sim,              \* the locals of the simulate_attack_propagation call in progress
    last,             \* the most recent call and what it returned or raised
    caller,           \* the locals of the simulate_multiple_scenarios or
                      \* simulate_patching_race call in progress, or how the
                      \* program runs two simulations (ConcurrentSpec)
    other             \* the locals of a second simulate_attack_propagation call
                      \* on the same DependencyGraph, made from another thread

store == <<components, graph_edges, vulnerabilities>>

vars == <<components, graph_edges, vulnerabilities, sim, last, caller, other>>

\* The empty dict
EmptyDict == [k \in {} |-> 0]

\* d[k] = v on a dict
DictSet(d, k, v) == [x \in DOMAIN d \cup {k} |-> IF x = k THEN v ELSE d[x]]

\* No simulation call is in progress.
Idle ==
    [pc |-> "idle", initial_compromise |-> None, simulation_days |-> 0,
     detection_probability |-> 0, start_time |-> 0, day |-> 0,
     current_compromised |-> {}, compromised_timeline |-> {}, detection_events |-> {}]

\* No simulate_multiple_scenarios or simulate_patching_race call is in
\* progress.
NoCaller == [op |-> "none"]

\* DependencyGraph.__init__
Init ==
    /\ components = EmptyDict
    /\ graph_edges = EmptyDict
    /\ vulnerabilities = EmptyDict
    /\ sim = Idle
    /\ last = [op |-> "init", raised |-> "none"]
    /\ caller = NoCaller
    /\ other = Idle

\* ------------------------------------------------------------------------
\* Store operations
\* ------------------------------------------------------------------------

\* add_component: self.components[component.id] = component; add_node keeps
\* the edges of a node that is already there.
add_component(component) ==
    /\ sim.pc = "idle"
    /\ components' = DictSet(components, ComponentId(component), component)
    /\ UNCHANGED <<graph_edges, vulnerabilities, sim>>
    /\ last' = [op |-> "add_component", id |-> ComponentId(component), raised |-> "none"]

\* Mutant of add_dependency: `or` for `and` in the guard.
add_dependency_either_known(dependent_id, dependency_id, dependency_type) ==
    /\ sim.pc = "idle"
    /\ IF dependent_id \in DOMAIN components \/ dependency_id \in DOMAIN components
       THEN graph_edges' = DictSet(graph_edges, <<dependency_id, dependent_id>>, dependency_type)
       ELSE UNCHANGED graph_edges
    /\ UNCHANGED <<components, vulnerabilities, sim>>
    /\ last' = [op |-> "add_dependency", dependent_id |-> dependent_id,
                dependency_id |-> dependency_id, raised |-> "none"]

\* add_dependency: the edge dependency_id -> dependent_id, only when both
\* ids are keys of self.components.
add_dependency(dependent_id, dependency_id, dependency_type) ==
    /\ sim.pc = "idle"
    /\ IF dependent_id \in DOMAIN components /\ dependency_id \in DOMAIN components
       THEN graph_edges' = DictSet(graph_edges, <<dependency_id, dependent_id>>, dependency_type)
       ELSE UNCHANGED graph_edges
    /\ UNCHANGED <<components, vulnerabilities, sim>>
    /\ last' = [op |-> "add_dependency", dependent_id |-> dependent_id,
                dependency_id |-> dependency_id, raised |-> "none"]

\* Mutant of add_vulnerability: the vulnerability is stored and no component
\* is marked.
add_vulnerability_stores_only(component_id, vulnerability) ==
    /\ sim.pc = "idle"
    /\ IF component_id \in DOMAIN components
       THEN vulnerabilities' =
               DictSet(vulnerabilities, Join(component_id, vulnerability.cve_id), vulnerability)
       ELSE UNCHANGED vulnerabilities
    /\ UNCHANGED <<components, graph_edges, sim>>
    /\ last' = [op |-> "add_vulnerability", id |-> component_id,
                vulnerability |-> vulnerability, raised |-> "none"]

\* Mutant of add_vulnerability: the component is marked whether or not a
\* patch is available.
add_vulnerability_ignores_patch(component_id, vulnerability) ==
    /\ sim.pc = "idle"
    /\ IF component_id \in DOMAIN components
       THEN /\ vulnerabilities' =
                 DictSet(vulnerabilities, Join(component_id, vulnerability.cve_id), vulnerability)
            /\ components' = [components EXCEPT ![component_id] =
                        [@ EXCEPT !.is_compromised = TRUE,
                                  !.compromise_time = Some(vulnerability.discovery_date)]]
       ELSE UNCHANGED <<components, vulnerabilities>>
    /\ UNCHANGED <<graph_edges, sim>>
    /\ last' = [op |-> "add_vulnerability", id |-> component_id,
                vulnerability |-> vulnerability, raised |-> "none"]

\* add_vulnerability: stored under f"{component_id}:{cve_id}"; a
\* vulnerability without a patch marks the component compromised.
add_vulnerability(component_id, vulnerability) ==
    /\ sim.pc = "idle"
    /\ IF component_id \in DOMAIN components
       THEN /\ vulnerabilities' =
                 DictSet(vulnerabilities, Join(component_id, vulnerability.cve_id), vulnerability)
            /\ IF ~vulnerability.patch_available
               THEN components' = [components EXCEPT ![component_id] =
                        [@ EXCEPT !.is_compromised = TRUE,
                                  !.compromise_time = Some(vulnerability.discovery_date)]]
               ELSE UNCHANGED components
       ELSE UNCHANGED <<components, vulnerabilities>>
    /\ UNCHANGED <<graph_edges, sim>>
    /\ last' = [op |-> "add_vulnerability", id |-> component_id,
                vulnerability |-> vulnerability, raised |-> "none"]

\* ------------------------------------------------------------------------
\* Graph queries
\* ------------------------------------------------------------------------

\* self.graph.successors(n) of the DiGraph
successors(n) == { e[2] : e \in { x \in DOMAIN graph_edges : x[1] = n } }

\* self.graph.predecessors(n)
predecessors(n) == { e[1] : e \in { x \in DOMAIN graph_edges : x[2] = n } }

\* The breadth-first search behind nx.descendants and nx.ancestors: the
\* nodes reached from the frontier, `visited` included.
RECURSIVE BfsVisit(_, _, _)
BfsVisit(forward, frontier, visited) ==
    IF frontier = {} THEN visited
    ELSE LET reached == UNION { IF forward THEN successors(n) ELSE predecessors(n)
                                : n \in frontier }
             fresh == reached \ visited
         IN BfsVisit(forward, fresh, visited \cup fresh)

\* Mutant of descendants: the source is not put in the visited set, so a
\* cycle leads back to it.
descendants_source_unvisited(source) == BfsVisit(TRUE, {source}, {})

\* nx.descendants(G, source): every node the search reaches, source excluded
descendants(source) == BfsVisit(TRUE, {source}, {source}) \ {source}

\* nx.ancestors(G, source)
ancestors(source) == BfsVisit(FALSE, {source}, {source}) \ {source}

\* get_dependencies(component_id, direct_only)
get_dependencies(component_id, direct_only) ==
    IF component_id \notin DOMAIN components THEN {}
    ELSE IF direct_only THEN predecessors(component_id)
    ELSE ancestors(component_id)

\* get_dependents(component_id, direct_only)
get_dependents(component_id, direct_only) ==
    IF component_id \notin DOMAIN components THEN {}
    ELSE IF direct_only THEN successors(component_id)
    ELSE descendants(component_id)

\* ------------------------------------------------------------------------
\* simulate_attack_propagation
\* ------------------------------------------------------------------------

\* Denominator of compromise_probability: 0.05 = 5/100, time_factor in
\* sevenths, criticality_factor in tenths, vuln_factor in tenths.
ProbabilityDenominator == 100 * 7 * 10 * 10

\* Denominator of detection_probability (tenths)
DetectionDenominator == 10

\* The outcomes `random.random() < num/den` can have: random() is in [0, 1).
Bernoulli(num, den) ==
    { b \in BOOLEAN : (b => num > 0) /\ (~b => num < den) }

Min(a, b) == IF a <= b THEN a ELSE b

Max(a, b) == IF a >= b THEN a ELSE b

RECURSIVE MaxOver(_, _)
MaxOver(start, S) ==
    IF S = {} THEN start
    ELSE LET x == CHOOSE y \in S : TRUE IN MaxOver(Max(start, x), S \ {x})

\* Mutant of DaysSince: the day of the compromise counts as a day.
DaysSince_counts_first_day(current_date, compromise_time) ==
    current_date - compromise_time[1] + 1

\* (current_date - component.compromise_time).days
DaysSince(current_date, compromise_time) == current_date - compromise_time[1]

\* vuln_factor of a dependent (tenths): starts at 1.0 and is raised to the
\* exploit_probability of every table entry whose key contains dependent_id.
vuln_factor(dependent_id) ==
    MaxOver(10, { vulnerabilities[k].exploit_probability :
                  k \in { x \in DOMAIN vulnerabilities : Contains(dependent_id, x) } })

\* Mutant of compromise_probability: time_factor is 1.0 from the first day.
compromise_probability_no_ramp(comp_id, dependent_id, current_date) ==
    5 * 7 * components[dependent_id].criticality_score * vuln_factor(dependent_id)

\* compromise_probability of dependent_id from source comp_id on `day`, as a
\* numerator over ProbabilityDenominator.
compromise_probability(comp_id, dependent_id, current_date) ==
    5 * Min(7, DaysSince(current_date, components[comp_id].compromise_time))
      * components[dependent_id].criticality_score * vuln_factor(dependent_id)

\* Mutant of simulate_unknown: the membership test comes after the reset.
simulate_unknown_after_reset(initial_compromise) ==
    /\ sim.pc = "idle"
    /\ initial_compromise \notin DOMAIN components
    /\ components' =
         [id \in DOMAIN components |->
            [components[id] EXCEPT !.is_compromised = FALSE, !.compromise_time = None]]
    /\ UNCHANGED <<graph_edges, vulnerabilities, sim>>
    /\ last' = [op |-> "simulate_attack_propagation", initial_compromise |-> initial_compromise,
                raised |-> "ValueError"]

\* An unknown initial component: raise ValueError before anything is touched.
simulate_unknown(initial_compromise) ==
    /\ sim.pc = "idle"
    /\ initial_compromise \notin DOMAIN components
    /\ UNCHANGED <<components, graph_edges, vulnerabilities, sim>>
    /\ last' = [op |-> "simulate_attack_propagation", initial_compromise |-> initial_compromise,
                raised |-> "ValueError"]

\* Mutant of simulate_start: the reset loop is missing.
simulate_start_no_reset(initial_compromise, simulation_days, detection_probability, start_time) ==
    /\ sim.pc = "idle"
    /\ initial_compromise \in DOMAIN components
    /\ components' =
         [components EXCEPT ![initial_compromise] =
            [@ EXCEPT !.is_compromised = TRUE, !.compromise_time = Some(start_time)]]
    /\ sim' = [pc |-> "day_loop", initial_compromise |-> initial_compromise,
               simulation_days |-> simulation_days,
               detection_probability |-> detection_probability,
               start_time |-> start_time, day |-> 0,
               current_compromised |-> {initial_compromise},
               compromised_timeline |-> {}, detection_events |-> {}]
    /\ UNCHANGED <<graph_edges, vulnerabilities>>
    /\ last' = [op |-> "simulate_attack_propagation", initial_compromise |-> initial_compromise,
                raised |-> "none", returned |-> FALSE,
                again |-> /\ last.op = "simulate_attack_propagation"
                          /\ last.raised = "none"
                          /\ last.initial_compromise = initial_compromise]

\* The reset of every component, the marking of the initial one, and the
\* locals before the day loop.
simulate_start(initial_compromise, simulation_days, detection_probability, start_time) ==
    /\ sim.pc = "idle"
    /\ initial_compromise \in DOMAIN components
    /\ components' =
         [id \in DOMAIN components |->
            IF id = initial_compromise
            THEN [components[id] EXCEPT !.is_compromised = TRUE,
                                        !.compromise_time = Some(start_time)]
            ELSE [components[id] EXCEPT !.is_compromised = FALSE,
                                        !.compromise_time = None]]
    /\ sim' = [pc |-> "day_loop", initial_compromise |-> initial_compromise,
               simulation_days |-> simulation_days,
               detection_probability |-> detection_probability,
               start_time |-> start_time, day |-> 0,
               current_compromised |-> {initial_compromise},
               compromised_timeline |-> {}, detection_events |-> {}]
    /\ UNCHANGED <<graph_edges, vulnerabilities>>
    /\ last' = [op |-> "simulate_attack_propagation", initial_compromise |-> initial_compromise,
                raised |-> "none", returned |-> FALSE,
                \* history: the call before this one was a completed run
                \* from the same initial component
                again |-> /\ last.op = "simulate_attack_propagation"
                          /\ last.raised = "none"
                          /\ last.initial_compromise = initial_compromise]

\* The (source, dependent) pairs the propagation pass of a day looks at:
\* the direct dependents, not yet in current_compromised, of the components
\* in current_compromised.
day_candidates(frame) ==
    { e \in frame.current_compromised \X DOMAIN components :
        /\ e[2] \in get_dependents(e[1], TRUE)
        /\ e[2] \notin frame.current_compromised }

\* Mutant of day_marked: the new compromises are tracked but not marked.
day_marked_nothing(hits, current_date) == components

\* Mutant of day_marked: the new compromises are dated a day early.
day_marked_day_early(hits, current_date) ==
    [id \in DOMAIN components |->
       IF id \in { e[2] : e \in hits }
       THEN [components[id] EXCEPT !.is_compromised = TRUE,
                                   !.compromise_time = Some(current_date - 1)]
       ELSE components[id]]

\* Mutant of day_marked: a compromised component also loses its criticality.
day_marked_clears_criticality(hits, current_date) ==
    [id \in DOMAIN components |->
       IF id \in { e[2] : e \in hits }
       THEN [components[id] EXCEPT !.is_compromised = TRUE,
                                   !.compromise_time = Some(current_date),
                                   !.criticality_score = 0]
       ELSE components[id]]

\* The components after the day's hits were marked
day_marked(hits, current_date) ==
    [id \in DOMAIN components |->
       IF id \in { e[2] : e \in hits }
       THEN [components[id] EXCEPT !.is_compromised = TRUE,
                                   !.compromise_time = Some(current_date)]
       ELSE components[id]]

\* Mutant of detection_pool: the detection pass runs before the merge.
detection_pool_before_merge(frame, new_compromises) == frame.current_compromised

\* The components the detection pass of a day draws for: current_compromised
\* after current_compromised.update(new_compromises)
detection_pool(frame, new_compromises) == frame.current_compromised \cup new_compromises

\* One iteration of `for day in range(simulation_days)` of the call whose
\* locals are `frame`: the propagation pass over the components compromised
\* so far, the merge of the day's new compromises, and the detection pass.
\* frame_next is the locals after it.
day_completes(frame, frame_next) ==
    LET current_date == frame.start_time + frame.day
        candidates == day_candidates(frame)
        p(e) == compromise_probability(e[1], e[2], current_date)
    IN /\ \A e \in candidates : components[e[1]].compromise_time # None
       /\ \E hits \in SUBSET candidates :
            /\ \A e \in candidates :
                 (e \in hits) \in Bernoulli(p(e), ProbabilityDenominator)
            /\ LET new_compromises == { e[2] : e \in hits }
                   merged == frame.current_compromised \cup new_compromises
                   pool == detection_pool(frame, new_compromises)
                   marked == day_marked(hits, current_date)
                   events == { [day |-> frame.day, component_id |-> e[2],
                                source_component |-> e[1],
                                compromise_probability |-> p(e)] : e \in hits }
               IN \E detected \in SUBSET pool :
                    /\ \A c \in pool :
                         (c \in detected) \in
                            Bernoulli(frame.detection_probability, DetectionDenominator)
                    /\ \A c \in detected : marked[c].compromise_time # None
                    /\ components' = marked
                    /\ frame_next = [frame EXCEPT
                         !.day = frame.day + 1,
                         !.current_compromised = merged,
                         !.compromised_timeline = frame.compromised_timeline \cup events,
                         !.detection_events = frame.detection_events \cup
                            { [day |-> frame.day, component_id |-> c,
                               days_since_compromise |->
                                  DaysSince(current_date, marked[c].compromise_time)]
                              : c \in detected }]

\* The same iteration when `current_date - component.compromise_time` meets a
\* compromise_time that is None (another call has reset the component):
\* TypeError, after the pairs looked at before it were handled.  The order
\* of the pass is the iteration order of a set, so any part of the pairs may
\* come first.
day_raises(frame, frame_next) ==
    LET current_date == frame.start_time + frame.day
        candidates == day_candidates(frame)
        sound == { e \in candidates : components[e[1]].compromise_time # None }
        p(e) == compromise_probability(e[1], e[2], current_date)
    IN /\ \E looked_at \in SUBSET sound, hits \in SUBSET sound :
            /\ hits \subseteq looked_at
            /\ \A e \in looked_at :
                 (e \in hits) \in Bernoulli(p(e), ProbabilityDenominator)
            /\ \/ sound # candidates
               \/ /\ looked_at = candidates
                  /\ frame.detection_probability > 0
                  /\ \E c \in detection_pool(frame, { e[2] : e \in hits }) :
                       day_marked(hits, current_date)[c].compromise_time = None
            /\ components' = day_marked(hits, current_date)
       /\ frame_next = Idle

simulate_day ==
    /\ sim.pc = "day_loop"
    /\ sim.day < sim.simulation_days
    /\ \/ /\ day_completes(sim, sim')
          /\ UNCHANGED last
       \/ /\ day_raises(sim, sim')
          /\ last' = [op |-> "simulate_attack_propagation",
                      initial_compromise |-> sim.initial_compromise,
                      raised |-> "TypeError", returned |-> TRUE, again |-> FALSE]
    /\ UNCHANGED <<graph_edges, vulnerabilities>>

\* Mutant of simulate_return: compromised_count is the number of timeline
\* events.
simulate_return_counts_events ==
    /\ sim.pc = "day_loop"
    /\ sim.day = sim.simulation_days
    /\ last' = [op |-> "simulate_attack_propagation",
                initial_compromise |-> sim.initial_compromise,
                raised |-> "none", returned |-> TRUE, again |-> last.again,
                value |->
                  [initial_compromise |-> sim.initial_compromise,
                   simulation_days |-> sim.simulation_days,
                   total_components |-> Cardinality(DOMAIN components),
                   compromised_count |-> Cardinality(sim.compromised_timeline),
                   \* (compromised_count / total_components) * 100, as a fraction
                   compromise_percentage |->
                      [num |-> 100 * Cardinality(sim.current_compromised),
                       den |-> Cardinality(DOMAIN components)],
                   applications_affected |->
                      Cardinality({ c \in sim.current_compromised :
                                      components[c].software_type = "application" }),
                   timeline |-> sim.compromised_timeline,
                   detection_events |-> sim.detection_events,
                   final_compromised_components |-> sim.current_compromised]]
    /\ sim' = Idle
    /\ UNCHANGED <<components, graph_edges, vulnerabilities>>

\* The statistics after the loop and the returned dict.
simulate_return ==
    /\ sim.pc = "day_loop"
    /\ sim.day = sim.simulation_days
    /\ last' = [op |-> "simulate_attack_propagation",
                initial_compromise |-> sim.initial_compromise,
                raised |-> "none", returned |-> TRUE, again |-> last.again,
                value |->
                  [initial_compromise |-> sim.initial_compromise,
                   simulation_days |-> sim.simulation_days,
                   total_components |-> Cardinality(DOMAIN components),
                   compromised_count |-> Cardinality(sim.current_compromised),
                   \* (compromised_count / total_components) * 100, as a fraction
                   compromise_percentage |->
                      [num |-> 100 * Cardinality(sim.current_compromised),
                       den |-> Cardinality(DOMAIN components)],
                   applications_affected |->
                      Cardinality({ c \in sim.current_compromised :
                                      components[c].software_type = "application" }),
                   timeline |-> sim.compromised_timeline,
                   detection_events |-> sim.detection_events,
                   final_compromised_components |-> sim.current_compromised]]
    /\ sim' = Idle
    /\ UNCHANGED <<components, graph_edges, vulnerabilities>>

\* Python's binding of keyword arguments: a keyword that is no parameter
\* of the function raises TypeError before the body runs.
Binds(kw, parameters) == kw.names \subseteq parameters

\* A call get_dependencies(component_id, **kw) of
\* def get_dependencies(self, component_id, direct_only=False)
call_get_dependencies(component_id, kw) ==
    IF Binds(kw, {"direct_only"})
    THEN [raised |-> "none", value |-> get_dependencies(component_id, kw.direct_only)]
    ELSE [raised |-> "TypeError", value |-> {}]

\* Mutant of call_get_dependents: without the membership test the DiGraph
\* raises for a node it does not hold.
call_get_dependents_unguarded(component_id, kw) ==
    IF ~Binds(kw, {"direct_only"}) THEN [raised |-> "TypeError", value |-> {}]
    ELSE IF component_id \notin DOMAIN components
    THEN [raised |-> "NetworkXError", value |-> {}]
    ELSE [raised |-> "none",
          value |-> IF kw.direct_only THEN successors(component_id)
                    ELSE descendants(component_id)]

\* A call get_dependents(component_id, **kw) of
\* def get_dependents(self, component_id, direct_only=False)
call_get_dependents(component_id, kw) ==
    IF Binds(kw, {"direct_only"})
    THEN [raised |-> "none", value |-> get_dependents(component_id, kw.direct_only)]
    ELSE [raised |-> "TypeError", value |-> {}]

RECURSIVE SumCriticality(_)
SumCriticality(S) ==
    IF S = {} THEN 0
    ELSE LET x == CHOOSE y \in S : TRUE
         IN components[x].criticality_score + SumCriticality(S \ {x})

\* Mutant of calculate_impact_score: only the direct dependents are summed.
calculate_impact_score_direct_only(component_id) ==
    IF component_id \notin DOMAIN components THEN 0
    ELSE 2 * components[component_id].criticality_score
         + SumCriticality(get_dependents(component_id, TRUE) \cap DOMAIN components)

\* Mutant of calculate_impact_score: the dependents' share is subtracted.
calculate_impact_score_subtracts(component_id) ==
    IF component_id \notin DOMAIN components THEN 0
    ELSE 2 * components[component_id].criticality_score
         - SumCriticality(get_dependents(component_id, FALSE) \cap DOMAIN components)

\* calculate_impact_score(component_id), in halves (the value times 2):
\* the component's criticality plus 0.5 times each dependent's.
calculate_impact_score(component_id) ==
    IF component_id \notin DOMAIN components THEN 0
    ELSE 2 * components[component_id].criticality_score
         + SumCriticality(get_dependents(component_id, FALSE) \cap DOMAIN components)

\* A call calculate_impact_score(component_id, **kw) of
\* def calculate_impact_score(self, component_id)
call_calculate_impact_score(component_id, kw) ==
    IF Binds(kw, {})
    THEN [raised |-> "none", value |-> calculate_impact_score(component_id)]
    ELSE [raised |-> "TypeError", value |-> 0]

\* find_critical_components(min_dependents): the (component_id,
\* dependent_count) tuples with at least min_dependents dependents; the list is
\* sorted by count, an order the set does not keep.
find_critical_components(min_dependents) ==
    { <<component_id, Cardinality(get_dependents(component_id, FALSE))>>
      : component_id \in { id \in DOMAIN components :
                             Cardinality(get_dependents(id, FALSE)) >= min_dependents } }

RECURSIVE SumDependencies(_)
SumDependencies(S) ==
    IF S = {} THEN 0
    ELSE LET x == CHOOSE y \in S : TRUE
         IN Cardinality(get_dependencies(x, FALSE)) + SumDependencies(S \ {x})

\* get_graph_stats(); the average is a fraction, 0 on an empty graph.
get_graph_stats ==
    [total_components |-> Cardinality(DOMAIN components),
     total_dependencies |-> Cardinality(DOMAIN graph_edges),
     applications |->
        Cardinality({ id \in DOMAIN components :
                        components[id].software_type = "application" }),
     libraries |->
        Cardinality({ id \in DOMAIN components :
                        components[id].software_type = "library" }),
     services |->
        Cardinality({ id \in DOMAIN components :
                        components[id].software_type = "service" }),
     compromised_components |->
        Cardinality({ id \in DOMAIN components : components[id].is_compromised }),
     average_dependencies_per_component |->
        IF DOMAIN components # {}
        THEN [num |-> SumDependencies(DOMAIN components),
              den |-> Cardinality(DOMAIN components)]
        ELSE [num |-> 0, den |-> 1],
     critical_components |-> Cardinality(find_critical_components(5))]

\* ------------------------------------------------------------------------
\* RiskAnalyzer.calculate_supply_chain_risk_score
\* ------------------------------------------------------------------------

\* type_risk
type_risk(software_type) ==
    CASE software_type = "application" -> 9
      [] software_type = "library" -> 6
      [] software_type = "framework" -> 7
      [] software_type = "utility" -> 5
      [] software_type = "operating_system" -> 8
      [] software_type = "service" -> 8
      [] software_type = "database" -> 9
      [] OTHER -> 5

\* severity_scores
severity_scores(severity) ==
    CASE severity = "critical" -> 10
      [] severity = "high" -> 7
      [] severity = "medium" -> 4
      [] severity = "low" -> 1

\* vuln_risk of comp_id: the highest severity score over the table entries
\* whose key contains comp_id, 0 when there is none.
vuln_risk(comp_id) ==
    MaxOver(0, { severity_scores(vulnerabilities[k].severity) :
                 k \in { x \in DOMAIN vulnerabilities : Contains(comp_id, x) } })

\* dependency_risk = min(10, len(get_dependents(comp_id)))
dependency_risk(comp_id) == Min(10, Cardinality(get_dependents(comp_id, FALSE)))

\* compound_risk of comp_id, in hundredths.
compound_risk(comp_id) ==
    30 * type_risk(components[comp_id].software_type)
    + 25 * components[comp_id].criticality_score
    + 25 * dependency_risk(comp_id)
    + 20 * vuln_risk(comp_id)

\* component_risks, the per-component part of the returned dict
component_risks ==
    [comp_id \in DOMAIN components |->
       [base_risk |-> type_risk(components[comp_id].software_type),
        criticality_risk |-> components[comp_id].criticality_score,
        dependency_risk |-> dependency_risk(comp_id),
        vulnerability_risk |-> vuln_risk(comp_id),
        compound_risk |-> compound_risk(comp_id)]]

\* calculate_supply_chain_risk_score(): 'high_risk_percentage' divides by
\* len(self.graph.components).
call_calculate_supply_chain_risk_score ==
    IF DOMAIN components = {}
    THEN [raised |-> "ZeroDivisionError", value |-> EmptyDict]
    ELSE [raised |-> "none", value |-> component_risks]

\* The query calls: none has an assignment to the store.
query_get_dependencies(component_id, kw) ==
    /\ sim.pc = "idle"
    /\ last' = [op |-> "get_dependencies", id |-> component_id, kw |-> kw,
                raised |-> call_get_dependencies(component_id, kw).raised,
                value |-> call_get_dependencies(component_id, kw).value]
    /\ UNCHANGED <<components, graph_edges, vulnerabilities, sim>>

query_get_dependents(component_id, kw) ==
    /\ sim.pc = "idle"
    /\ last' = [op |-> "get_dependents", id |-> component_id, kw |-> kw,
                raised |-> call_get_dependents(component_id, kw).raised,
                value |-> call_get_dependents(component_id, kw).value]
    /\ UNCHANGED <<components, graph_edges, vulnerabilities, sim>>

query_calculate_impact_score(component_id, kw) ==
    /\ sim.pc = "idle"
    /\ last' = [op |-> "calculate_impact_score", id |-> component_id, kw |-> kw,
                raised |-> call_calculate_impact_score(component_id, kw).raised,
                value |-> call_calculate_impact_score(component_id, kw).value]
    /\ UNCHANGED <<components, graph_edges, vulnerabilities, sim>>

query_calculate_supply_chain_risk_score ==
    /\ sim.pc = "idle"
    /\ last' = [op |-> "calculate_supply_chain_risk_score",
                raised |-> call_calculate_supply_chain_risk_score.raised,
                value |-> call_calculate_supply_chain_risk_score.value]
    /\ UNCHANGED <<components, graph_edges, vulnerabilities, sim>>

query_find_critical_components(min_dependents) ==
    /\ sim.pc = "idle"
    /\ last' = [op |-> "find_critical_components", min_dependents |-> min_dependents,
                raised |-> "none", value |-> find_critical_components(min_dependents)]
    /\ UNCHANGED <<components, graph_edges, vulnerabilities, sim>>

query_get_graph_stats ==
    /\ sim.pc = "idle"
    /\ last' = [op |-> "get_graph_stats", raised |-> "none", value |-> get_graph_stats]
    /\ UNCHANGED <<components, graph_edges, vulnerabilities, sim>>

\* ------------------------------------------------------------------------
\* export_to_json / load_from_json
\* ------------------------------------------------------------------------

\* datetime.isoformat(): the text of a day number
isoformat(t) == <<"T", t>>

\* datetime.fromisoformat()
fromisoformat(text) == text[2]

\* str.split(":")
RECURSIVE split(_)
split(s) ==
    IF \A i \in 1..Len(s) : s[i] # ":" THEN <<s>>
    ELSE LET i == CHOOSE j \in 1..Len(s) :
                     s[j] = ":" /\ \A k \in 1..(j - 1) : s[k] # ":"
         IN <<SubSeq(s, 1, i - 1)>> \o split(SubSeq(s, i + 1, Len(s)))

\* export_data of export_to_json, which json.dump writes and json.load reads
\* back: dicts and lists of str, bool, number and None.
export_to_json ==
    [components |->
        [comp_id \in DOMAIN components |->
            [name |-> components[comp_id].name,
             version |-> components[comp_id].version,
             software_type |-> components[comp_id].software_type,
             is_compromised |-> components[comp_id].is_compromised,
             compromise_time |->
                IF components[comp_id].compromise_time # None
                THEN Some(isoformat(components[comp_id].compromise_time[1]))
                ELSE None,
             criticality_score |-> components[comp_id].criticality_score]],
     dependencies |->
        { [from |-> edge[1], to |-> edge[2], type |-> graph_edges[edge]]
          : edge \in DOMAIN graph_edges },
     vulnerabilities |->
        [vuln_id \in DOMAIN vulnerabilities |->
            [cve_id |-> vulnerabilities[vuln_id].cve_id,
             severity |-> vulnerabilities[vuln_id].severity,
             discovery_date |-> isoformat(vulnerabilities[vuln_id].discovery_date),
             patch_available |-> vulnerabilities[vuln_id].patch_available,
             exploit_probability |-> vulnerabilities[vuln_id].exploit_probability]]]

\* The component load_from_json constructs from one entry of data["components"]
loaded_component(comp_data) ==
    [name |-> comp_data.name, version |-> comp_data.version,
     software_type |-> comp_data.software_type,
     is_compromised |-> comp_data.is_compromised,
     compromise_time |->
        IF comp_data.compromise_time # None
        THEN Some(fromisoformat(comp_data.compromise_time[1]))
        ELSE None,
     criticality_score |-> comp_data.criticality_score]

\* The Vulnerability load_from_json constructs from one entry of
\* data["vulnerabilities"]
loaded_vulnerability(vuln_data) ==
    [cve_id |-> vuln_data.cve_id, severity |-> vuln_data.severity,
     discovery_date |-> fromisoformat(vuln_data.discovery_date),
     patch_available |-> vuln_data.patch_available,
     exploit_probability |-> vuln_data.exploit_probability]

\* component_id = vuln_id.split(":")[0] + ":" + vuln_id.split(":")[1]
loaded_component_id(vuln_id) == split(vuln_id)[1] \o <<":">> \o split(vuln_id)[2]

\* load_from_json(data): a new graph filled by add_component, add_dependency
\* (dep["to"], dep["from"]) and add_vulnerability, in that order.  A
\* component with several unpatched vulnerabilities gets the discovery date
\* of the one loaded last; the inputs here attach at most one.
load_from_json(data) ==
    LET made == { loaded_component(data.components[k]) : k \in DOMAIN data.components }
        added == [id \in { ComponentId(c) : c \in made } |->
                    CHOOSE c \in made : ComponentId(c) = id]
        edges == { d \in data.dependencies :
                     d.to \in DOMAIN added /\ d.from \in DOMAIN added }
        vulns == { k \in DOMAIN data.vulnerabilities :
                     loaded_component_id(k) \in DOMAIN added }
        zero_days(id) == { k \in vulns :
                             /\ loaded_component_id(k) = id
                             /\ ~data.vulnerabilities[k].patch_available }
    IN [components |->
           [id \in DOMAIN added |->
              IF zero_days(id) = {} THEN added[id]
              ELSE [added[id] EXCEPT
                      !.is_compromised = TRUE,
                      !.compromise_time =
                         Some(loaded_vulnerability(
                                data.vulnerabilities[CHOOSE k \in zero_days(id) : TRUE]
                              ).discovery_date)]],
        graph_edges |->
           [e \in { <<d.from, d.to>> : d \in edges } |->
              (CHOOSE d \in edges : <<d.from, d.to>> = e).type],
        vulnerabilities |->
           [key \in { Join(loaded_component_id(k), data.vulnerabilities[k].cve_id)
                      : k \in vulns } |->
              loaded_vulnerability(
                 data.vulnerabilities[
                    CHOOSE k \in vulns :
                       Join(loaded_component_id(k), data.vulnerabilities[k].cve_id) = key])]]

\* graph.export_to_json(path) followed by DependencyGraph.load_from_json(path):
\* the store is read, the loaded graph is a new object.
export_then_load ==
    /\ sim.pc = "idle"
    /\ last' = [op |-> "load_from_json", raised |-> "none",
                value |-> load_from_json(export_to_json)]
    /\ UNCHANGED <<components, graph_edges, vulnerabilities, sim>>

\* ------------------------------------------------------------------------
\* The program: any sequence of calls on one DependencyGraph
\* ------------------------------------------------------------------------

\* Calls made directly on the graph, from one thread.
AddComponent ==
    /\ \E c \in ComponentInputs : add_component(c)
    /\ UNCHANGED <<caller, other>>

AddDependency ==
    /\ \E d \in DependencyInputs, t \in DependencyTypes : add_dependency(d[1], d[2], t)
    /\ UNCHANGED <<caller, other>>

AddVulnerability ==
    /\ \E c \in VulnerabilityInputs : add_vulnerability(c[1], c[2])
    /\ UNCHANGED <<caller, other>>

SimulateUnknown ==
    /\ \E id \in Ids : simulate_unknown(id)
    /\ UNCHANGED <<caller, other>>

SimulateStart ==
    /\ \E id \in Ids, n \in 0..MaxDays, dp \in DetectionProbabilities, t \in StartTimes :
          simulate_start(id, n, dp, t)
    /\ UNCHANGED <<caller, other>>

SimulateDay == simulate_day /\ UNCHANGED <<caller, other>>

SimulateReturn == simulate_return /\ UNCHANGED <<caller, other>>

GetDependencies ==
    /\ \E id \in Ids, kw \in QueryKeywords : query_get_dependencies(id, kw)
    /\ UNCHANGED <<caller, other>>

GetDependents ==
    /\ \E id \in Ids, kw \in QueryKeywords : query_get_dependents(id, kw)
    /\ UNCHANGED <<caller, other>>

CalculateImpactScore ==
    /\ \E id \in Ids, kw \in QueryKeywords : query_calculate_impact_score(id, kw)
    /\ UNCHANGED <<caller, other>>

CalculateSupplyChainRiskScore ==
    query_calculate_supply_chain_risk_score /\ UNCHANGED <<caller, other>>

ExportThenLoad == export_then_load /\ UNCHANGED <<caller, other>>

Next ==
    \/ AddComponent
    \/ AddDependency
    \/ AddVulnerability
    \/ SimulateUnknown
    \/ SimulateStart
    \/ SimulateDay
    \/ SimulateReturn
    \/ GetDependencies
    \/ GetDependents
    \/ CalculateImpactScore
    \/ CalculateSupplyChainRiskScore
    \/ ExportThenLoad

Spec == Init /\ [][Next]_vars

\* ------------------------------------------------------------------------
\* calculate_time_to_patch
\* ------------------------------------------------------------------------

\* The keys of base_times
OrganizationTypes == { "enterprise", "large", "medium", "small" }

\* base_times[organization_type][severity], in days
base_times(organization_type, severity) ==
    CASE organization_type = "enterprise" ->
           (CASE severity = "critical" -> 3 [] severity = "high" -> 7
              [] severity = "medium" -> 30 [] severity = "low" -> 90)
      [] organization_type = "large" ->
           (CASE severity = "critical" -> 7 [] severity = "high" -> 14
              [] severity = "medium" -> 45 [] severity = "low" -> 120)
      [] organization_type = "medium" ->
           (CASE severity = "critical" -> 14 [] severity = "high" -> 30
              [] severity = "medium" -> 60 [] severity = "low" -> 180)
      [] organization_type = "small" ->
           (CASE severity = "critical" -> 30 [] severity = "high" -> 60
              [] severity = "medium" -> 90 [] severity = "low" -> 365)

\* max_severity after the loop over self.vulnerabilities: the highest
\* severity over the table entries whose key contains component_id, "low"
\* when there is none.
max_severity(component_id) ==
    LET found == { vulnerabilities[k].severity :
                     k \in { x \in DOMAIN vulnerabilities : Contains(component_id, x) } }
    IN IF "critical" \in found THEN "critical"
       ELSE IF "high" \in found THEN "high"
       ELSE IF "medium" \in found THEN "medium"
       ELSE "low"

\* The adjustment by component type: int(base_time * 0.7), int(base_time *
\* 1.5), int(base_time * 1.3).  The double 0.7 is below 7/10, and of the
\* values of base_times the product falls below the integer for 90 and 180
\* (90 * 0.7 = 62.99999999999999); the other products truncate as the exact
\* ones do.
type_adjusted(base_time, software_type) ==
    CASE software_type = "application" ->
           IF base_time \in {90, 180} THEN (7 * base_time) \div 10 - 1
           ELSE (7 * base_time) \div 10
      [] software_type = "operating_system" -> (15 * base_time) \div 10
      [] software_type = "database" -> (13 * base_time) \div 10
      [] OTHER -> base_time

\* Values of random.uniform(0.8, 1.4), in tenths
Variations == { 8, 13 }

\* calculate_time_to_patch(component_id, organization_type) when
\* random.uniform returns `variation`: 0 for an unknown component, KeyError
\* from base_times[organization_type] otherwise.
calculate_time_to_patch(component_id, organization_type, variation) ==
    IF component_id \notin DOMAIN components THEN [raised |-> "none", value |-> 0]
    ELSE IF organization_type \notin OrganizationTypes
    THEN [raised |-> "KeyError", value |-> 0]
    ELSE [raised |-> "none",
          value |-> (type_adjusted(base_times(organization_type, max_severity(component_id)),
                                   components[component_id].software_type)
                     * variation) \div 10]

query_calculate_time_to_patch(component_id, organization_type, variation) ==
    /\ sim.pc = "idle"
    /\ last' = [op |-> "calculate_time_to_patch", id |-> component_id,
                organization_type |-> organization_type,
                raised |-> calculate_time_to_patch(component_id, organization_type,
                                                   variation).raised,
                value |-> calculate_time_to_patch(component_id, organization_type,
                                                  variation).value]
    /\ UNCHANGED <<components, graph_edges, vulnerabilities, sim>>

\* ------------------------------------------------------------------------
\* simulate_multiple_scenarios
\* ------------------------------------------------------------------------

\* a < b for two fractions with positive denominators
FractionLess(a, b) == a.num * b.den < b.num * a.den

\* The first element of the list `keys` whose key is minimal, as min(keys,
\* key=...) returns it; less is the order of the key values, as the set of
\* the pairs <<x, y>> with key(x) < key(y).
FirstMinimal(keys, less) ==
    keys[CHOOSE i \in 1..Len(keys) :
           /\ \A j \in 1..Len(keys) : <<keys[j], keys[i]>> \notin less
           /\ \A j \in 1..(i - 1) : <<keys[i], keys[j]>> \in less]

\* max(results.keys(), key=lambda x: results[x]['compromise_percentage'])
most_impactful(results, keys) ==
    LET names == { keys[i] : i \in 1..Len(keys) }
        less == { p \in names \X names :
                    FractionLess(results[p[2]].compromise_percentage,
                                 results[p[1]].compromise_percentage) }
    IN FirstMinimal(keys, less)

\* Mutant of spread_key: the length of the timeline, empty or not.
spread_key_plain_length(result) ==
    [inf |-> FALSE, len |-> Cardinality(result.timeline)]

\* The key of fastest_spread:
\* len(results[x]['timeline']) if results[x]['timeline'] else float('inf')
spread_key(result) ==
    IF result.timeline # {}
    THEN [inf |-> FALSE, len |-> Cardinality(result.timeline)]
    ELSE [inf |-> TRUE, len |-> 0]

\* a < b for two values of spread_key
SpreadKeyLess(a, b) == ~a.inf /\ (b.inf \/ a.len < b.len)

\* min(results.keys(), key=...)
fastest_spread(results, keys) ==
    LET names == { keys[i] : i \in 1..Len(keys) }
        less == { p \in names \X names :
                    SpreadKeyLess(spread_key(results[p[1]]), spread_key(results[p[2]])) }
    IN FirstMinimal(keys, less)

RECURSIVE SumPercentages(_, _)
SumPercentages(results, keys) ==
    IF keys = <<>> THEN [num |-> 0, den |-> 1]
    ELSE LET a == results[Head(keys)].compromise_percentage
             b == SumPercentages(results, Tail(keys))
         IN [num |-> a.num * b.den + b.num * a.den, den |-> a.den * b.den]

\* np.mean of the compromise percentages, as a fraction
avg_compromise_rate(results, keys) ==
    [num |-> SumPercentages(results, keys).num,
     den |-> SumPercentages(results, keys).den * Len(keys)]

\* Entry of simulate_multiple_scenarios(scenarios): results = {}.  `order`
\* is the insertion order of the keys of results.
scenarios_begin(scenarios) ==
    /\ caller.op = "none"
    /\ sim.pc = "idle"
    /\ caller' = [op |-> "simulate_multiple_scenarios", pc |-> "loop",
                  scenarios |-> scenarios, index |-> 1,
                  results |-> EmptyDict, order |-> <<>>]
    /\ last' = [op |-> "simulate_multiple_scenarios", raised |-> "none", returned |-> FALSE]
    /\ UNCHANGED <<components, graph_edges, vulnerabilities, sim>>

\* The loop body up to the call of simulate_attack_propagation; its
\* ValueError is not caught.
scenarios_run ==
    /\ caller.op = "simulate_multiple_scenarios"
    /\ caller.pc = "loop"
    /\ caller.index <= Len(caller.scenarios)
    /\ LET scenario == caller.scenarios[caller.index]
       IN IF scenario.initial_component \in DOMAIN components
          THEN /\ \E t \in StartTimes :
                    simulate_start(scenario.initial_component, scenario.simulation_days,
                                   scenario.detection_probability, t)
               /\ caller' = [caller EXCEPT !.pc = "in_simulation"]
          ELSE /\ simulate_unknown(scenario.initial_component)
               /\ caller' = NoCaller

\* results[scenario_name] = result
scenarios_collect ==
    /\ caller.op = "simulate_multiple_scenarios"
    /\ caller.pc = "in_simulation"
    /\ simulate_return
    /\ LET scenario_name == caller.scenarios[caller.index].name
       IN caller' = [caller EXCEPT
                       !.pc = "loop",
                       !.index = @ + 1,
                       !.results = DictSet(@, scenario_name, last'.value),
                       !.order = IF scenario_name \in DOMAIN caller.results THEN @
                                 ELSE Append(@, scenario_name)]

\* The comparison after the loop; max() of no key raises ValueError.
scenarios_return ==
    /\ caller.op = "simulate_multiple_scenarios"
    /\ caller.pc = "loop"
    /\ caller.index > Len(caller.scenarios)
    /\ last' =
         IF caller.order = <<>>
         THEN [op |-> "simulate_multiple_scenarios", raised |-> "ValueError",
               returned |-> TRUE]
         ELSE [op |-> "simulate_multiple_scenarios", raised |-> "none", returned |-> TRUE,
               value |->
                 [scenarios |-> caller.results,
                  \* the key order of the dict above
                  order |-> caller.order,
                  summary |->
                    [most_impactful |-> most_impactful(caller.results, caller.order),
                     fastest_spread |-> fastest_spread(caller.results, caller.order),
                     avg_compromise_rate |->
                        avg_compromise_rate(caller.results, caller.order)]]]
    /\ caller' = NoCaller
    /\ UNCHANGED <<components, graph_edges, vulnerabilities, sim>>

\* ------------------------------------------------------------------------
\* simulate_patching_race
\* ------------------------------------------------------------------------

\* Mutant of in_vulnerable_window: a compromise on the patch day counts.
in_vulnerable_window_inclusive(compromise_day, patch_day) == compromise_day <= patch_day

\* if compromise_day < patch_day
in_vulnerable_window(compromise_day, patch_day) == compromise_day < patch_day

\* vulnerable_window: one entry per timeline event in the window.  The list
\* can hold two entries that differ in nothing (two events of one component
\* on one day); source_component is kept in the entry to keep them apart.
vulnerable_window(timeline, patching_timeline) ==
    { [component_id |-> event.component_id,
       source_component |-> event.source_component,
       compromise_day |-> event.day,
       patch_day |-> patching_timeline[event.component_id],
       vulnerability_window |-> patching_timeline[event.component_id] - event.day]
      : event \in { e \in timeline :
                      in_vulnerable_window(e.day, patching_timeline[e.component_id]) } }

\* results[org_type]
race_result(attack_result, patching_timeline) ==
    LET window == vulnerable_window(attack_result.timeline, patching_timeline)
        saved == attack_result.compromised_count - Cardinality(window)
    IN [attack_result |-> attack_result,
        patching_timeline |-> patching_timeline,
        vulnerable_window_components |-> window,
        components_saved_by_patching |-> saved,
        \* (saved / compromised_count) * 100, as a fraction
        patch_effectiveness |->
           IF attack_result.compromised_count > 0
           THEN [num |-> 100 * saved, den |-> attack_result.compromised_count]
           ELSE [num |-> 100, den |-> 1]]

\* Entry of simulate_patching_race(attack_scenario, organization_types)
race_begin(attack_scenario, organization_types) ==
    /\ caller.op = "none"
    /\ sim.pc = "idle"
    /\ caller' = [op |-> "simulate_patching_race", pc |-> "loop",
                  attack_scenario |-> attack_scenario,
                  organization_types |-> organization_types, index |-> 1,
                  attack_result |-> None, results |-> EmptyDict]
    /\ last' = [op |-> "simulate_patching_race", raised |-> "none", returned |-> FALSE]
    /\ UNCHANGED <<components, graph_edges, vulnerabilities, sim>>

\* The loop body up to the call of simulate_attack_propagation
race_run ==
    /\ caller.op = "simulate_patching_race"
    /\ caller.pc = "loop"
    /\ caller.index <= Len(caller.organization_types)
    /\ IF caller.attack_scenario.initial_component \in DOMAIN components
       THEN /\ \E t \in StartTimes :
                 simulate_start(caller.attack_scenario.initial_component,
                                caller.attack_scenario.simulation_days,
                                caller.attack_scenario.detection_probability, t)
            /\ caller' = [caller EXCEPT !.pc = "in_simulation"]
       ELSE /\ simulate_unknown(caller.attack_scenario.initial_component)
            /\ caller' = NoCaller

\* attack_result = self.simulate_attack_propagation(...)
race_collect ==
    /\ caller.op = "simulate_patching_race"
    /\ caller.pc = "in_simulation"
    /\ simulate_return
    /\ caller' = [caller EXCEPT !.pc = "patching", !.attack_result = Some(last'.value)]

\* The rest of the loop body: the patching timeline (one draw of
\* random.uniform per component), the vulnerable window and results[org_type].
\* The KeyError of calculate_time_to_patch is not caught.
race_patch ==
    /\ caller.op = "simulate_patching_race"
    /\ caller.pc = "patching"
    /\ LET org_type == caller.organization_types[caller.index]
       IN \E variation \in [DOMAIN components -> Variations] :
            LET patch(comp_id) ==
                    calculate_time_to_patch(comp_id, org_type, variation[comp_id])
            IN IF \E comp_id \in DOMAIN components : patch(comp_id).raised # "none"
               THEN /\ caller' = NoCaller
                    /\ last' = [op |-> "simulate_patching_race", raised |-> "KeyError",
                                returned |-> TRUE]
               ELSE /\ caller' =
                         [caller EXCEPT
                            !.pc = "loop",
                            !.index = @ + 1,
                            !.attack_result = None,
                            !.results =
                               DictSet(@, org_type,
                                  race_result(caller.attack_result[1],
                                     [comp_id \in DOMAIN components |->
                                        patch(comp_id).value]))]
                    /\ UNCHANGED last
    /\ UNCHANGED <<components, graph_edges, vulnerabilities, sim>>

\* return results
race_return ==
    /\ caller.op = "simulate_patching_race"
    /\ caller.pc = "loop"
    /\ caller.index > Len(caller.organization_types)
    /\ last' = [op |-> "simulate_patching_race", raised |-> "none", returned |-> TRUE,
                value |-> caller.results]
    /\ caller' = NoCaller
    /\ UNCHANGED <<components, graph_edges, vulnerabilities, sim>>

\* ------------------------------------------------------------------------
\* The program on a populated graph: scenario comparisons, patching races
\* and patch-time queries
\* ------------------------------------------------------------------------

\* Largest simulation_days of a scenario
MaxScenarioDays == 3

\* An id that is not in the store
UnknownId == <<"z", ":", "1">>

\* The components c:1 (library, 2), c:10 (application, 5) and a:1
\* (application, 10) after add_component
ChainComponents ==
    [id \in {IdA, IdB, IdC} |->
       CHOOSE c \in ComponentInputs : ComponentId(c) = id /\ c.criticality_score > 0]

\* The edges after add_dependency of the chain c:1 <- c:10 <- a:1, and with
\* a:1 depending on c:1 as well
EdgeChoices ==
    { [e \in {<<IdC, IdB>>, <<IdB, IdA>>} |-> "direct"],
      [e \in {<<IdC, IdB>>, <<IdB, IdA>>, <<IdC, IdA>>} |-> "direct"] }

\* The unpatched critical vulnerability of VulnerabilityInputs
ZeroDay == CHOOSE c \in VulnerabilityInputs : ~c[2].patch_available

\* A graph built by add_component, add_dependency and, or not,
\* add_vulnerability of the zero-day.
RaceInit ==
    /\ graph_edges \in EdgeChoices
    /\ \E attached \in BOOLEAN :
         IF attached
         THEN /\ vulnerabilities =
                   DictSet(EmptyDict, Join(ZeroDay[1], ZeroDay[2].cve_id), ZeroDay[2])
              /\ components =
                   [ChainComponents EXCEPT ![ZeroDay[1]] =
                      [@ EXCEPT !.is_compromised = TRUE,
                                !.compromise_time = Some(ZeroDay[2].discovery_date)]]
         ELSE /\ vulnerabilities = EmptyDict
              /\ components = ChainComponents
    /\ sim = Idle
    /\ last = [op |-> "init", raised |-> "none"]
    /\ caller = NoCaller
    /\ other = Idle

\* scenario dicts
Scenario(name, initial_component, simulation_days, detection_probability) ==
    [name |-> name, initial_component |-> initial_component,
     simulation_days |-> simulation_days,
     detection_probability |-> detection_probability]

\* The lists handed to simulate_multiple_scenarios
ScenarioInputs ==
    { <<Scenario("library", IdC, MaxScenarioDays, 0), Scenario("leaf", IdA, 1, 1)>>,
      <<Scenario("leaf", IdA, 1, 0), Scenario("library", IdC, MaxScenarioDays, 0)>>,
      <<Scenario("library", IdC, MaxScenarioDays, 0),
        Scenario("application", IdB, MaxScenarioDays, 0)>>,
      <<Scenario("watched", IdC, MaxScenarioDays, DetectionDenominator)>>,
      <<Scenario("unknown", UnknownId, 1, 0)>>,
      <<>> }

\* The attack_scenario dicts handed to simulate_patching_race
AttackScenarioInputs ==
    { [initial_component |-> IdC, simulation_days |-> MaxScenarioDays,
       detection_probability |-> 0],
      [initial_component |-> IdA, simulation_days |-> 1, detection_probability |-> 1],
      [initial_component |-> UnknownId, simulation_days |-> 1,
       detection_probability |-> 0] }

\* The organization_types lists handed to simulate_patching_race
OrganizationTypeInputs ==
    { <<"enterprise">>, <<"small", "enterprise">>, <<"startup">> }

ScenariosBegin ==
    /\ \E scenarios \in ScenarioInputs : scenarios_begin(scenarios)
    /\ UNCHANGED other

ScenariosRun == scenarios_run /\ UNCHANGED other

ScenariosCollect == scenarios_collect /\ UNCHANGED other

ScenariosReturn == scenarios_return /\ UNCHANGED other

RaceBegin ==
    /\ \E attack_scenario \in AttackScenarioInputs,
          organization_types \in OrganizationTypeInputs :
            race_begin(attack_scenario, organization_types)
    /\ UNCHANGED other

RaceRun == race_run /\ UNCHANGED other

RaceCollect == race_collect /\ UNCHANGED other

RacePatch == race_patch /\ UNCHANGED other

RaceReturn == race_return /\ UNCHANGED other

CalculateTimeToPatch ==
    /\ caller.op = "none"
    /\ \E id \in Ids \cup {UnknownId},
          organization_type \in OrganizationTypes \cup {"startup"},
          variation \in Variations :
            query_calculate_time_to_patch(id, organization_type, variation)
    /\ UNCHANGED <<caller, other>>

\* The min_dependents arguments: the default and 1
MinDependentsInputs == { 1, 5 }

\* The query calls made between two simulation calls
FindCriticalComponents ==
    /\ caller.op = "none"
    /\ \E min_dependents \in MinDependentsInputs :
          query_find_critical_components(min_dependents)
    /\ UNCHANGED <<caller, other>>

GetGraphStats ==
    /\ caller.op = "none"
    /\ query_get_graph_stats
    /\ UNCHANGED <<caller, other>>

GraphQueries ==
    /\ caller.op = "none"
    /\ \/ GetDependencies
       \/ GetDependents
       \/ CalculateImpactScore
       \/ CalculateSupplyChainRiskScore

RaceNext ==
    \/ ScenariosBegin
    \/ ScenariosRun
    \/ ScenariosCollect
    \/ ScenariosReturn
    \/ RaceBegin
    \/ RaceRun
    \/ RaceCollect
    \/ RacePatch
    \/ RaceReturn
    \/ SimulateDay
    \/ CalculateTimeToPatch
    \/ FindCriticalComponents
    \/ GetGraphStats
    \/ GraphQueries

RaceSpec == RaceInit /\ [][RaceNext]_vars

\* ------------------------------------------------------------------------
\* Patching races on a graph whose leaf has three compromised dependencies
\* ------------------------------------------------------------------------

IdD == <<"d", ":", "1">>

\* The components of the chain and the application d:1 (criticality 5)
DiamondComponents ==
    LET d == SoftwareComponent(<<"d">>, <<"1">>, "application", 5)
    IN [id \in {IdA, IdB, IdC, IdD} |->
          IF id = IdD THEN d ELSE ChainComponents[id]]

\* c:10 and d:1 depend on c:1; a:1 depends on c:1, c:10 and d:1
DiamondEdges ==
    [e \in {<<IdC, IdB>>, <<IdC, IdD>>, <<IdC, IdA>>, <<IdB, IdA>>, <<IdD, IdA>>}
       |-> "direct"]

\* A graph built by add_component and add_dependency
DiamondInit ==
    /\ components = DiamondComponents
    /\ graph_edges = DiamondEdges
    /\ vulnerabilities = EmptyDict
    /\ sim = Idle
    /\ last = [op |-> "init", raised |-> "none"]
    /\ caller = NoCaller
    /\ other = Idle

\* simulate_patching_race from the library, for one organization type
DiamondRaceBegin ==
    /\ \E organization_type \in {"enterprise", "small"} :
          race_begin([initial_component |-> IdC, simulation_days |-> MaxScenarioDays,
                      detection_probability |-> 0],
                     <<organization_type>>)
    /\ UNCHANGED other

DiamondNext ==
    \/ DiamondRaceBegin
    \/ RaceRun
    \/ SimulateDay
    \/ RaceCollect
    \/ RacePatch
    \/ RaceReturn

DiamondSpec == DiamondInit /\ [][DiamondNext]_vars

\* ------------------------------------------------------------------------
\* Two simulate_attack_propagation calls on one graph, from two threads
\* ------------------------------------------------------------------------

\* The second call up to its day loop: the same statements as simulate_start,
\* on its own locals.
other_start(initial_compromise, simulation_days, detection_probability, start_time) ==
    /\ other.pc = "idle"
    /\ initial_compromise \in DOMAIN components
    /\ components' =
         [id \in DOMAIN components |->
            IF id = initial_compromise
            THEN [components[id] EXCEPT !.is_compromised = TRUE,
                                        !.compromise_time = Some(start_time)]
            ELSE [components[id] EXCEPT !.is_compromised = FALSE,
                                        !.compromise_time = None]]
    /\ other' = [pc |-> "day_loop", initial_compromise |-> initial_compromise,
                 simulation_days |-> simulation_days,
                 detection_probability |-> detection_probability,
                 start_time |-> start_time, day |-> 0,
                 current_compromised |-> {initial_compromise},
                 compromised_timeline |-> {}, detection_events |-> {}]
    /\ UNCHANGED <<graph_edges, vulnerabilities>>

\* One day of the second call
other_day ==
    /\ other.pc = "day_loop"
    /\ other.day < other.simulation_days
    /\ \/ day_completes(other, other')
       \/ day_raises(other, other')
    /\ UNCHANGED <<graph_edges, vulnerabilities>>

\* The return of the second call
other_return ==
    /\ other.pc = "day_loop"
    /\ other.day = other.simulation_days
    /\ other' = Idle
    /\ UNCHANGED <<components, graph_edges, vulnerabilities>>

\* How the program runs the two calls: one after the other (serialized), or
\* from two threads with nothing between them.
Threads(serialized) == [op |-> "threads", serialized |-> serialized]

\* datetime.now() at the start of the second call
OtherStartTimes == { 11 }

ConcurrentInit ==
    /\ components = ChainComponents
    /\ graph_edges \in EdgeChoices
    /\ vulnerabilities = EmptyDict
    /\ sim = Idle
    /\ other = Idle
    /\ last = [op |-> "init", raised |-> "none"]
    /\ caller \in { Threads(TRUE), Threads(FALSE) }

\* The first thread starts from the library, the second from any component.
FirstStart ==
    /\ caller.serialized => other.pc = "idle"
    /\ \E t \in StartTimes : simulate_start(IdC, MaxDays, 0, t)
    /\ UNCHANGED <<caller, other>>

SecondStart ==
    /\ caller.serialized => sim.pc = "idle"
    /\ \E id \in DOMAIN components, dp \in DetectionProbabilities,
          t \in OtherStartTimes :
            other_start(id, MaxDays, dp, t)
    /\ UNCHANGED <<caller, sim, last>>

SecondDay == other_day /\ UNCHANGED <<caller, sim, last>>

SecondReturn == other_return /\ UNCHANGED <<caller, sim, last>>

ConcurrentNext ==
    \/ FirstStart
    \/ SimulateDay
    \/ SimulateReturn
    \/ SecondStart
    \/ SecondDay
    \/ SecondReturn

ConcurrentSpec == ConcurrentInit /\ [][ConcurrentNext]_vars

\* ------------------------------------------------------------------------
\* RiskAnalyzer.generate_risk_report
\* ------------------------------------------------------------------------

\* high_risk_components: compound_risk >= high_risk_threshold (7.0)
high_risk_components == { comp_id \in DOMAIN components : compound_risk(comp_id) >= 700 }

\* The components _identify_critical_attack_paths starts from: impact score
\* above 15 (in halves), the five highest (any five of them on a tie).
high_impact_components ==
    LET high == { comp_id \in DOMAIN components : calculate_impact_score(comp_id) > 30 }
    IN IF Cardinality(high) <= 5 THEN high
       ELSE CHOOSE top \in SUBSET high :
              /\ Cardinality(top) = 5
              /\ \A x \in top, y \in high \ top :
                    calculate_impact_score(x) >= calculate_impact_score(y)

\* _identify_critical_attack_paths()
critical_paths ==
    { [source_component |-> comp_id,
       impact_score |-> calculate_impact_score(comp_id),
       total_dependents |-> Cardinality(get_dependents(comp_id, FALSE)),
       applications_affected |->
          Cardinality({ dep \in get_dependents(comp_id, FALSE) :
                          components[dep].software_type = "application" })]
      : comp_id \in high_impact_components }

RECURSIVE SumCompoundRisk(_)
SumCompoundRisk(S) ==
    IF S = {} THEN 0
    ELSE LET x == CHOOSE y \in S : TRUE IN compound_risk(x) + SumCompoundRisk(S \ {x})

\* The dict calculate_supply_chain_risk_score returns, for a graph with
\* components; fractions are [num, den], risks in hundredths.
risk_assessment ==
    [overall_risk_score |->
        [num |-> SumCompoundRisk(DOMAIN components),
         den |-> Cardinality(DOMAIN components)],
     total_components |-> Cardinality(DOMAIN components),
     high_risk_components |-> Cardinality(high_risk_components),
     high_risk_percentage |->
        [num |-> 100 * Cardinality(high_risk_components),
         den |-> Cardinality(DOMAIN components)],
     component_risks |-> component_risks,
     critical_paths |-> critical_paths]

\* _categorize_risk_level(risk_score), risk_score a fraction of hundredths
categorize_risk_level(risk_score) ==
    IF risk_score.num < 300 * risk_score.den THEN "LOW"
    ELSE IF risk_score.num < 600 * risk_score.den THEN "MEDIUM"
    ELSE IF risk_score.num < 800 * risk_score.den THEN "HIGH"
    ELSE "CRITICAL"

\* len([v for v in self.graph.vulnerabilities.values() if v.severity == CRITICAL])
critical_vulns ==
    Cardinality({ k \in DOMAIN vulnerabilities : vulnerabilities[k].severity = "critical" })

\* len([c for c in self.graph.components.values() if c.software_type == LIBRARY])
library_count ==
    Cardinality({ id \in DOMAIN components : components[id].software_type = "library" })

RECURSIVE SumFractions(_)
SumFractions(fractions) ==
    IF fractions = <<>> THEN [num |-> 0, den |-> 1]
    ELSE LET a == Head(fractions)
             b == SumFractions(Tail(fractions))
         IN [num |-> a.num * b.den + b.num * a.den, den |-> a.den * b.den]

\* avg_compromise = np.mean([r['compromise_percentage'] for r in simulation_results])
avg_compromise(simulation_results) ==
    LET total == SumFractions([i \in 1..Len(simulation_results) |->
                                 simulation_results[i].compromise_percentage])
    IN [num |-> total.num, den |-> total.den * Len(simulation_results)]

\* The dict appended for each recommendation (priority, category, title)
Recommendation(priority, category, title) ==
    [priority |-> priority, category |-> category, title |-> title]

\* Mutant of simulation_recommendation: the average is compared with >=.
simulation_recommendation_at_threshold(simulation_results) ==
    IF simulation_results # None /\ simulation_results[1] # <<>>
       /\ ~FractionLess(avg_compromise(simulation_results[1]), [num |-> 30, den |-> 1])
    THEN <<Recommendation("MEDIUM", "Incident Response",
                          "Improve Incident Detection and Response")>>
    ELSE <<>>

\* The simulation-based recommendation: `if simulation_results:` holds for a
\* list that is not empty (simulation_results is None or <<list>>).
simulation_recommendation(simulation_results) ==
    IF simulation_results # None /\ simulation_results[1] # <<>>
       /\ FractionLess([num |-> 30, den |-> 1], avg_compromise(simulation_results[1]))
    THEN <<Recommendation("MEDIUM", "Incident Response",
                          "Improve Incident Detection and Response")>>
    ELSE <<>>

\* _generate_recommendations(risk_assessment, simulation_results)
generate_recommendations(assessment, simulation_results) ==
    (IF FractionLess([num |-> 20, den |-> 1], assessment.high_risk_percentage)
     THEN <<Recommendation("HIGH", "Risk Mitigation", "Address High-Risk Components")>>
     ELSE <<>>)
    \o (IF assessment.critical_paths # {}
        THEN <<Recommendation("HIGH", "Attack Surface Reduction",
                              "Secure Critical Attack Paths")>>
        ELSE <<>>)
    \o (IF critical_vulns > 0
        THEN <<Recommendation("CRITICAL", "Vulnerability Management",
                              "Address Critical Vulnerabilities")>>
        ELSE <<>>)
    \o simulation_recommendation(simulation_results)
    \o (IF library_count > 10
        THEN <<Recommendation("MEDIUM", "Supply Chain Security",
                              "Implement Supply Chain Security Controls")>>
        ELSE <<>>)

\* generate_risk_report(simulation_results): the report without its
\* per-scenario analysis (pandas statistics of each timeline, which nothing
\* else reads).  calculate_supply_chain_risk_score raises on an empty graph.
generate_risk_report(simulation_results) ==
    IF call_calculate_supply_chain_risk_score.raised # "none"
    THEN [raised |-> call_calculate_supply_chain_risk_score.raised]
    ELSE LET risk_score == risk_assessment IN
         [raised |-> "none",
          value |->
            [risk_assessment |-> risk_score,
             executive_summary |->
                [overall_risk_level |->
                    categorize_risk_level(risk_score.overall_risk_score),
                 total_components_analyzed |-> risk_score.total_components,
                 high_risk_components |-> risk_score.high_risk_components,
                 applications_count |->
                    Cardinality({ id \in DOMAIN components :
                                    components[id].software_type = "application" }),
                 critical_vulnerabilities |-> critical_vulns],
             scenarios_analyzed |->
                IF simulation_results # None /\ simulation_results[1] # <<>>
                THEN Len(simulation_results[1]) ELSE 0,
             recommendations |->
                generate_recommendations(risk_score, simulation_results)]]

query_generate_risk_report(simulation_results) ==
    /\ sim.pc = "idle"
    /\ LET report == generate_risk_report(simulation_results)
       IN last' = [op |-> "generate_risk_report",
                   simulation_results |-> simulation_results,
                   raised |-> report.raised,
                   report |-> report]
    /\ UNCHANGED <<components, graph_edges, vulnerabilities, sim>>

\* A direct call analyzer._generate_recommendations(assessment, simulation_results)
query_generate_recommendations(assessment, simulation_results) ==
    /\ sim.pc = "idle"
    /\ last' = [op |-> "_generate_recommendations",
                simulation_results |-> simulation_results,
                raised |-> "none",
                report |->
                  [raised |-> "none",
                   value |->
                     [risk_assessment |-> assessment,
                      recommendations |->
                         generate_recommendations(assessment, simulation_results)]]]
    /\ UNCHANGED <<components, graph_edges, vulnerabilities, sim>>

\* ------------------------------------------------------------------------
\* The program on graphs of several sizes: risk reports
\* ------------------------------------------------------------------------

\* Most libraries of a graph (one more than the threshold of the
\* supply-chain recommendation)
MaxLibraries == 11

\* str(i) for 0 <= i < 100
Decimal(i) ==
    LET digit(d) == <<"0", "1", "2", "3", "4", "5", "6", "7", "8", "9">>[d + 1]
    IN IF i < 10 THEN <<digit(i)>> ELSE <<digit(i \div 10), digit(i % 10)>>

\* The graph after add_component of libraries l:1 .. l:n (criticality 2)
\* and applications a:1 .. a:m of criticality app_criticality, and
\* add_dependency of every application on every library.
FleetComponents(n, m, app_criticality) ==
    LET made == { SoftwareComponent(<<"l">>, Decimal(i), "library", 2) : i \in 1..n }
                \cup { SoftwareComponent(<<"a">>, Decimal(i), "application",
                                         app_criticality) : i \in 1..m }
    IN [id \in { ComponentId(c) : c \in made } |->
          CHOOSE c \in made : ComponentId(c) = id]

FleetEdges(n, m) ==
    [e \in { <<Join(<<"l">>, Decimal(i)), Join(<<"a">>, Decimal(j))>>
             : i \in 1..n, j \in 1..m } |-> "direct"]

\* A patched critical vulnerability for add_vulnerability("a:1", ...)
PatchedCritical == Vulnerability(<<"X">>, "critical", 1, TRUE, 4)

\* Graphs built by add_component, add_dependency and add_vulnerability, and
\* the empty graph.
ReportInit ==
    /\ \E n \in {0, 1, MaxLibraries - 1, MaxLibraries}, m \in {1, 2},
          app_criticality \in {5, 20} :
         /\ components = (IF n = 0 THEN EmptyDict
                          ELSE FleetComponents(n, m, app_criticality))
         /\ graph_edges = (IF n = 0 THEN EmptyDict ELSE FleetEdges(n, m))
         /\ \E attached \in BOOLEAN :
              vulnerabilities =
                 IF attached /\ n # 0
                 THEN DictSet(EmptyDict, Join(<<"a", ":", "1">>, PatchedCritical.cve_id),
                              PatchedCritical)
                 ELSE EmptyDict
    /\ sim = Idle
    /\ last = [op |-> "init", raised |-> "none"]
    /\ caller = NoCaller
    /\ other = Idle

\* A result dict of simulate_attack_propagation with the given
\* compromise_percentage (compromised_count / total_components * 100)
SimulationResult(compromised_count, total_components) ==
    [compromised_count |-> compromised_count, total_components |-> total_components,
     compromise_percentage |-> [num |-> 100 * compromised_count,
                                den |-> total_components]]

\* The simulation_results arguments: None, no result, and lists with mean
\* compromise percentage 20, 30, 40 and 35
SimulationResultInputs ==
    { None, Some(<<>>),
      Some(<<SimulationResult(2, 10)>>),
      Some(<<SimulationResult(3, 10)>>),
      Some(<<SimulationResult(4, 10)>>),
      Some(<<SimulationResult(2, 10), SimulationResult(5, 10)>>) }

\* The risk_assessment arguments of a direct _generate_recommendations call
RiskAssessmentInputs ==
    { [high_risk_percentage |-> [num |-> 100 * h, den |-> 5],
       high_risk_components |-> h,
       critical_paths |-> paths]
      : h \in {1, 2},
        paths \in { {}, { [source_component |-> <<"l", ":", "1">>, impact_score |-> 32,
                           total_dependents |-> 1, applications_affected |-> 1] } } }

GenerateRiskReport ==
    /\ \E simulation_results \in SimulationResultInputs :
          query_generate_risk_report(simulation_results)
    /\ UNCHANGED <<caller, other>>

GenerateRecommendations ==
    /\ \E assessment \in RiskAssessmentInputs,
          simulation_results \in SimulationResultInputs :
            query_generate_recommendations(assessment, simulation_results)
    /\ UNCHANGED <<caller, other>>

ReportNext ==
    \/ GenerateRiskReport
    \/ GenerateRecommendations

ReportSpec == ReportInit /\ [][ReportNext]_vars

\* ------------------------------------------------------------------------
\* Reference notions the properties are stated with
\* ------------------------------------------------------------------------

\* There is a directed path of at least one edge from u to v.
PathExists(u, v) ==
    \E n \in 1..Cardinality(Ids) :
        \E path \in [1..(n + 1) -> Ids] :
            /\ path[1] = u
            /\ path[n + 1] = v
            /\ \A i \in 1..n : <<path[i], path[i + 1]>> \in DOMAIN graph_edges

\* The transitive dependents of c: the other components a path leads to.
TransitiveDependents(c) == { d \in DOMAIN components \ {c} : PathExists(c, d) }

\* The transitive dependencies of c.
TransitiveDependencies(c) == { d \in DOMAIN components \ {c} : PathExists(d, c) }

\* The components at most d hops downstream (forward) or upstream of c.
RECURSIVE WithinHops(_, _, _)
WithinHops(forward, c, d) ==
    IF d = 0 THEN {}
    ELSE LET near == WithinHops(forward, c, d - 1) \cup {c}
         IN { x \in Ids : \E n \in near :
                IF forward THEN <<n, x>> \in DOMAIN graph_edges
                ELSE <<x, n>> \in DOMAIN graph_edges }

\* The vulnerabilities add_vulnerability(c, v) stored for component c.
AttachedVulnerabilities(c) ==
    { vulnerabilities[k] :
        k \in { x \in DOMAIN vulnerabilities :
                  \E i \in VulnerabilityInputs : x = Join(c, i[2].cve_id) } }

\* The store holds exactly the chain C(2) <- B(5) <- A(10).
ChainStore ==
    /\ DOMAIN components = {IdA, IdB, IdC}
    /\ components[IdC].criticality_score = 2
    /\ components[IdB].criticality_score = 5
    /\ components[IdA].criticality_score = 10
    /\ DOMAIN graph_edges = {<<IdC, IdB>>, <<IdB, IdA>>}

\* ------------------------------------------------------------------------
\* C1
\* ------------------------------------------------------------------------

\* C1: add_vulnerability(X, v) on a component X of the store: without a
\* patch, X is compromised afterwards with compromise_time = v.discovery_date;
\* with a patch, X.is_compromised and X.compromise_time are what they were.
C1_ZeroDayMarks ==
    [][ (last'.op = "add_vulnerability" /\ last'.id \in DOMAIN components) =>
          IF ~last'.vulnerability.patch_available
          THEN /\ components'[last'.id].is_compromised
               /\ components'[last'.id].compromise_time =
                     Some(last'.vulnerability.discovery_date)
          ELSE /\ components'[last'.id].is_compromised =
                     components[last'.id].is_compromised
               /\ components'[last'.id].compromise_time =
                     components[last'.id].compromise_time ]_vars

\* A zero-day has just been attached to a component of the store.
C1_Witness ==
    /\ last.op = "add_vulnerability"
    /\ last.id \in DOMAIN components
    /\ ~last.vulnerability.patch_available
    /\ Join(last.id, last.vulnerability.cve_id) \in DOMAIN vulnerabilities
    /\ components[last.id].is_compromised

\* ------------------------------------------------------------------------
\* C2
\* ------------------------------------------------------------------------

\* C2: from the start of a run to the end of its day 0, the compromised set
\* is {initial} and the components' fields say the same: every other
\* component is reset, whatever happened before the call.
C2_ResetThenInitialOnly ==
    (sim.pc = "day_loop" /\ sim.day <= 1) =>
        /\ sim.current_compromised = {sim.initial_compromise}
        /\ Cardinality(sim.current_compromised) = 1
        /\ \A id \in DOMAIN components :
             /\ components[id].is_compromised = (id = sim.initial_compromise)
             /\ components[id].compromise_time =
                  IF id = sim.initial_compromise THEN Some(sim.start_time) ELSE None

\* The end of day 0 of a run repeated from the same initial component, whose
\* direct dependent carries a zero-day and has positive criticality.
C2_Witness ==
    /\ sim.pc = "day_loop"
    /\ sim.day = 1
    /\ last.again
    /\ \E d \in get_dependents(sim.initial_compromise, TRUE) :
         /\ d # sim.initial_compromise
         /\ components[d].criticality_score > 0
         /\ \E v \in AttachedVulnerabilities(d) : ~v.patch_available

\* ------------------------------------------------------------------------
\* C3
\* ------------------------------------------------------------------------

\* C3: simulate_attack_propagation with an initial component that is not in
\* the store raises, and leaves the store as it was.
C3_UnknownInitialRaises ==
    [][ (/\ last'.op = "simulate_attack_propagation"
         /\ last'.initial_compromise \notin DOMAIN components) =>
          /\ last'.raised = "ValueError"
          /\ UNCHANGED <<components, graph_edges, vulnerabilities, sim>> ]_vars

\* The call has raised on a store that holds a compromised component.
C3_Witness ==
    /\ last.op = "simulate_attack_propagation"
    /\ last.raised = "ValueError"
    /\ \E id \in DOMAIN components : components[id].is_compromised

\* ------------------------------------------------------------------------
\* C4
\* ------------------------------------------------------------------------

\* C4: for every component, the direct dependents are among the dependents
\* and the direct dependencies among the dependencies.
C4_DirectWithinTransitive ==
    \A c \in DOMAIN components :
        /\ get_dependents(c, TRUE) \subseteq get_dependents(c, FALSE)
        /\ get_dependencies(c, TRUE) \subseteq get_dependencies(c, FALSE)

\* ------------------------------------------------------------------------
\* C5
\* ------------------------------------------------------------------------

\* C5: get_dependents(C, max_depth=d) and get_dependencies(C, max_depth=d)
\* return the components within d hops of C (the direct ones for d = 1).
C5_DepthBound ==
    (/\ last.op \in {"get_dependents", "get_dependencies"}
     /\ last.kw.names = {"max_depth"}
     /\ last.id \in DOMAIN components) =>
        /\ last.raised = "none"
        /\ last.value = WithinHops(last.op = "get_dependents", last.id, last.kw.max_depth)

\* ------------------------------------------------------------------------
\* C6
\* ------------------------------------------------------------------------

\* What calculate_impact_score(c) is claimed to return, in halves.
ImpactReference(c) ==
    IF c \notin DOMAIN components THEN 0
    ELSE 2 * components[c].criticality_score + SumCriticality(TransitiveDependents(c))

\* C6 as stated: the impact score is the component's criticality plus 0.5
\* times the criticality of each transitive dependent, 0 for an unknown id,
\* and 9.0 (18 halves) for C in the chain C(2) <- B(5) <- A(10).
C6_AsStated ==
    (last.op = "calculate_impact_score" /\ last.raised = "none") =>
        /\ last.value = ImpactReference(last.id)
        /\ (ChainStore /\ last.id = IdC) => last.value = 18

\* C6 amended: the same sum, which is 9.5 (19 halves) for C in the chain.
C6_FlatDiscountSum ==
    (last.op = "calculate_impact_score" /\ last.raised = "none") =>
        /\ last.value = ImpactReference(last.id)
        /\ (ChainStore /\ last.id = IdC) => last.value = 19

\* calculate_impact_score(C) has returned on the chain.
C6_Witness ==
    /\ last.op = "calculate_impact_score"
    /\ last.raised = "none"
    /\ ChainStore
    /\ last.id = IdC
    /\ last.value = 19

\* ------------------------------------------------------------------------
\* C7
\* ------------------------------------------------------------------------

\* C7 as stated: the impact score of every component is at least its own
\* criticality score, whatever the criticality scores in the store.
C7_AsStated ==
    \A c \in DOMAIN components :
        calculate_impact_score(c) >= 2 * components[c].criticality_score

\* C7 amended: it is, when no transitive dependent of the component has a
\* negative criticality score.
C7_AtLeastOwnCriticality ==
    \A c \in DOMAIN components :
        (\A d \in TransitiveDependents(c) : components[d].criticality_score >= 0) =>
            calculate_impact_score(c) >= 2 * components[c].criticality_score

\* The score of a component with dependents, none negative, has been
\* computed.
C7_Witness ==
    /\ last.op = "calculate_impact_score"
    /\ last.raised = "none"
    /\ last.id \in DOMAIN components
    /\ TransitiveDependents(last.id) # {}
    /\ \A d \in TransitiveDependents(last.id) : components[d].criticality_score >= 0
    /\ last.value > 2 * components[last.id].criticality_score

\* ------------------------------------------------------------------------
\* C8
\* ------------------------------------------------------------------------

\* The highest severity score of the vulnerabilities of c, 0 if none.
WorstSeverityScore(c) ==
    MaxOver(0, { severity_scores(v.severity) : v \in AttachedVulnerabilities(c) })

\* C8: compound_risk = 0.30 base + 0.25 criticality + 0.25 min(10, number of
\* transitive dependents) + 0.20 highest severity score of the component's
\* vulnerabilities (hundredths here); within [0, 10] when the criticality
\* is; 9.7 for an application of criticality 10 with 10 dependents and a
\* critical vulnerability.
C8_CompoundRisk ==
    (last.op = "calculate_supply_chain_risk_score" /\ last.raised = "none") =>
        \A c \in DOMAIN last.value :
            /\ last.value[c].compound_risk =
                 30 * type_risk(components[c].software_type)
                 + 25 * components[c].criticality_score
                 + 25 * Min(10, Cardinality(TransitiveDependents(c)))
                 + 20 * WorstSeverityScore(c)
            /\ (components[c].criticality_score >= 0 /\ components[c].criticality_score <= 10)
                 => (last.value[c].compound_risk >= 0 /\ last.value[c].compound_risk <= 1000)
            /\ (/\ components[c].software_type = "application"
                /\ components[c].criticality_score = 10
                /\ Cardinality(TransitiveDependents(c)) >= 10
                /\ WorstSeverityScore(c) = 10)
                 => last.value[c].compound_risk = 970

\* ------------------------------------------------------------------------
\* C9
\* ------------------------------------------------------------------------

\* C9: add_dependency with an id that is not in the store, and
\* add_vulnerability on an id that is not in the store, raise nothing and
\* change nothing.
C9_SoftFail ==
    [][ /\ (/\ last'.op = "add_dependency"
            /\ \/ last'.dependent_id \notin DOMAIN components
               \/ last'.dependency_id \notin DOMAIN components) =>
              /\ last'.raised = "none"
              /\ UNCHANGED <<components, graph_edges, vulnerabilities, sim>>
        /\ (/\ last'.op = "add_vulnerability"
            /\ last'.id \notin DOMAIN components) =>
              /\ last'.raised = "none"
              /\ UNCHANGED <<components, graph_edges, vulnerabilities, sim>> ]_vars

\* add_dependency has returned with one end in the store and one not.
C9_Witness ==
    /\ last.op = "add_dependency"
    /\ last.raised = "none"
    /\ (last.dependent_id \in DOMAIN components) # (last.dependency_id \in DOMAIN components)
    /\ DOMAIN graph_edges # {}

\* ------------------------------------------------------------------------
\* C10
\* ------------------------------------------------------------------------

C11_UnsupportedRaises ==
    (/\ last.op = "calculate_time_to_patch"
     /\ last.organization_type \notin {"enterprise", "large", "medium", "small"}) =>
        last.raised # "none"

\* ------------------------------------------------------------------------
\* C12
\* ------------------------------------------------------------------------

\* C12: load_from_json of the output of export_to_json yields the components
\* with all attributes equal (is_compromised and compromise_time included),
\* the same typed edges and the same vulnerability table.
C12_RoundTrip ==
    last.op = "load_from_json" =>
        /\ last.value.components = components
        /\ last.value.graph_edges = graph_edges
        /\ last.value.vulnerabilities = vulnerabilities

\* ------------------------------------------------------------------------
\* C13
\* ------------------------------------------------------------------------

\* The results[org_type] entries computed so far or returned
RaceResults ==
    IF caller.op = "simulate_patching_race"
    THEN { <<org, caller.results[org]>> : org \in DOMAIN caller.results }
    ELSE IF last.op = "simulate_patching_race" /\ last.returned /\ last.raised = "none"
    THEN { <<org, last.value[org]>> : org \in DOMAIN last.value }
    ELSE {}

\* The timeline events compromised strictly before their component's patch day
BeforePatch(result) ==
    { e \in result.attack_result.timeline :
        e.day < result.patching_timeline[e.component_id] }

\* C13: patch_effectiveness is (compromised_count - number of timeline events
\* whose day is strictly before the patch day of their component) /
\* compromised_count * 100, every patch day being a value of
\* calculate_time_to_patch for the organization type; it is 100 when the
\* timeline is empty.
C13_PatchEffectiveness ==
    \A r \in RaceResults :
        LET result == r[2]
            compromised_count == result.attack_result.compromised_count
        IN /\ \A c \in DOMAIN components :
                \E v \in Variations :
                   result.patching_timeline[c] = calculate_time_to_patch(c, r[1], v).value
           /\ Cardinality(result.vulnerable_window_components) =
                 Cardinality(BeforePatch(result))
           /\ result.patch_effectiveness =
                 [num |-> 100 * (compromised_count - Cardinality(BeforePatch(result))),
                  den |-> compromised_count]
           /\ result.attack_result.timeline = {} =>
                 result.patch_effectiveness.num = 100 * result.patch_effectiveness.den

\* A race has returned a result in which one component was compromised on
\* its patch day and another before its patch day.
C13_Witness ==
    /\ last.op = "simulate_patching_race"
    /\ last.returned
    /\ last.raised = "none"
    /\ \E r \in RaceResults :
         /\ \E e \in r[2].attack_result.timeline :
              e.day = r[2].patching_timeline[e.component_id]
         /\ BeforePatch(r[2]) # {}
         /\ r[2].patch_effectiveness.num = 100 * (r[2].attack_result.compromised_count - 1)

\* ------------------------------------------------------------------------
\* C14
\* ------------------------------------------------------------------------

\* simulate_multiple_scenarios has returned a comparison.
ScenariosReturned ==
    /\ last.op = "simulate_multiple_scenarios"
    /\ last.returned
    /\ last.raised = "none"

RecommendationTable ==
    << [priority |-> "HIGH", title |-> "Address High-Risk Components"],
       [priority |-> "HIGH", title |-> "Secure Critical Attack Paths"],
       [priority |-> "CRITICAL", title |-> "Address Critical Vulnerabilities"],
       [priority |-> "MEDIUM", title |-> "Improve Incident Detection and Response"],
       [priority |-> "MEDIUM", title |-> "Implement Supply Chain Security Controls"] >>

\* The trigger of the i-th recommendation for the report in `last`
Trigger(i) ==
    LET assessment == last.report.value.risk_assessment
        results == last.simulation_results
    IN CASE i = 1 -> assessment.high_risk_percentage.num
                        > 20 * assessment.high_risk_percentage.den
         [] i = 2 -> Cardinality(assessment.critical_paths) >= 1
         [] i = 3 -> \E k \in DOMAIN vulnerabilities :
                        vulnerabilities[k].severity = "critical"
         [] i = 4 -> /\ results # None
                     /\ results[1] # <<>>
                     /\ avg_compromise(results[1]).num > 30 * avg_compromise(results[1]).den
         [] i = 5 -> library_count > 10

\* The positions of the table whose trigger holds, in increasing order
RECURSIVE Fired(_)
Fired(i) ==
    IF i > Len(RecommendationTable) THEN <<>>
    ELSE (IF Trigger(i) THEN <<i>> ELSE <<>>) \o Fired(i + 1)

\* C15: the recommendation list holds exactly the recommendations whose
\* trigger holds, each once, in the order of the table.
C15_Recommendations ==
    (last.op \in {"generate_risk_report", "_generate_recommendations"}
       /\ last.raised = "none") =>
        LET recommendations == last.report.value.recommendations
        IN /\ Len(recommendations) = Len(Fired(1))
           /\ \A k \in 1..Len(recommendations) :
                 /\ recommendations[k].title = RecommendationTable[Fired(1)[k]].title
                 /\ recommendations[k].priority = RecommendationTable[Fired(1)[k]].priority

\* A report whose five recommendations all fire, and whose list therefore
\* has a CRITICAL entry after two HIGH ones.
C15_Witness ==
    /\ last.op \in {"generate_risk_report", "_generate_recommendations"}
    /\ last.raised = "none"
    /\ Len(last.report.value.recommendations) = 5
    /\ last.report.value.recommendations[3].priority = "CRITICAL"

\* ------------------------------------------------------------------------
\* C16
\* ------------------------------------------------------------------------

\* C16: on every store, cycles included, get_dependents and get_dependencies
\* return exactly the other components a directed path connects to the
\* target, and calculate_impact_score and dependency_risk are computed from
\* that set.
C16_CycleSafe ==
    \A c \in DOMAIN components :
        /\ get_dependents(c, FALSE) = TransitiveDependents(c)
        /\ get_dependencies(c, FALSE) = TransitiveDependencies(c)
        /\ calculate_impact_score(c) = ImpactReference(c)
        /\ dependency_risk(c) = Cardinality(TransitiveDependents(c))

\* The store holds the cycle c:1 -> c:10 -> a:1 -> c:1 and get_dependents
\* has returned the two other components for one on the cycle.
C16_Witness ==
    /\ {<<IdC, IdB>>, <<IdB, IdA>>, <<IdA, IdC>>} \subseteq DOMAIN graph_edges
    /\ last.op = "get_dependents"
    /\ last.raised = "none"
    /\ last.kw.names = {}
    /\ last.id \in DOMAIN components
    /\ last.value = DOMAIN components \ {last.id}
    /\ Cardinality(last.value) = 2

\* ------------------------------------------------------------------------
\* C17
\* ------------------------------------------------------------------------

\* The date the run with locals `frame` marked component c with
OwnDate(frame, c) ==
    IF c = frame.initial_compromise THEN frame.start_time
    ELSE frame.start_time +
           (CHOOSE d \in 0..frame.simulation_days :
              \E e \in frame.compromised_timeline : e.component_id = c /\ e.day = d)

\* Every component the run tracks as compromised carries the flag and the
\* date the run gave it.
TrackedIntact(frame) ==
    frame.pc = "day_loop" =>
        \A c \in frame.current_compromised :
            /\ components[c].is_compromised
            /\ components[c].compromise_time = Some(OwnDate(frame, c))

\* C17: when the two runs are serialized, no component tracked as
\* compromised by a run has its is_compromised flag or its compromise_time
\* cleared or overwritten; when their steps interleave such a state is
\* reachable (C17_Witness).
C17_SerializedRunsIntact ==
    caller.serialized => (TrackedIntact(sim) /\ TrackedIntact(other))

\* The steps of the two runs interleave, and a component tracked by the
\* first run has been cleared by the reset of the second.
C17_Witness ==
    /\ ~caller.serialized
    /\ sim.pc = "day_loop"
    /\ other.pc = "day_loop"
    /\ \E c \in sim.current_compromised :
         /\ ~components[c].is_compromised
         /\ components[c].compromise_time = None

\* ------------------------------------------------------------------------
\* C18
\* ------------------------------------------------------------------------

\* C18: calculate_supply_chain_risk_score returns without raising on every
\* store, whatever the number of components.
C18_NeverFails ==
    last.op = "calculate_supply_chain_risk_score" => last.raised = "none"

\* ------------------------------------------------------------------------
\* C19
\* ------------------------------------------------------------------------

\* C19: in the run in progress, the component of every timeline event is a
\* direct dependent of the event's source, and the source was compromised on
\* an earlier day: it is the initial component or has its own events, all of
\* them on earlier days, and the date it was marked with is earlier.
C19_NoSameDayCascade ==
    \A e \in sim.compromised_timeline :
        /\ e.component_id \in successors(e.source_component)
        /\ \/ e.source_component = sim.initial_compromise
           \/ \E f \in sim.compromised_timeline : f.component_id = e.source_component
        /\ \A f \in sim.compromised_timeline :
              f.component_id = e.source_component => f.day < e.day
        /\ components[e.source_component].compromise_time # None
        /\ DaysSince(sim.start_time, components[e.source_component].compromise_time)
              < e.day

\* A component compromised during the run is the source of a later event.
C19_Witness ==
    \E e \in sim.compromised_timeline :
        /\ e.source_component # sim.initial_compromise
        /\ \E f \in sim.compromised_timeline :
             f.component_id = e.source_component /\ f.day < e.day

\* ------------------------------------------------------------------------
\* C20
\* ------------------------------------------------------------------------

\* The highest exploit_probability (tenths) of the vulnerabilities of c, 1.0
\* when it has none.
MaxExploitProbability(c) ==
    IF AttachedVulnerabilities(c) = {} THEN 10
    ELSE MaxOver(0, { v.exploit_probability : v \in AttachedVulnerabilities(c) })

\* C20: the compromise probability of every timeline event is
\* 0.05 * min(1, days since the source's compromise / 7) * criticality / 10
\* * the highest exploit probability of the dependent's vulnerabilities
\* (1.0 when it has none).
C20_VulnFactor ==
    \A e \in sim.compromised_timeline :
        e.compromise_probability =
            5 * Min(7, DaysSince(sim.start_time + e.day,
                                 components[e.source_component].compromise_time))
              * components[e.component_id].criticality_score
              * MaxExploitProbability(e.component_id)

\* ------------------------------------------------------------------------
\* C21
\* ------------------------------------------------------------------------

\* C21: add_vulnerability(Y, v) changes, for no component X other than Y, the
\* vulnerability_risk of the risk scorer, the worst severity of
\* calculate_time_to_patch or the vulnerability factor of the simulation;
\* and the vulnerability_risk of X is the highest severity score of the
\* vulnerabilities added to X, 0 if none.
C21_OwnVulnerabilitiesOnly ==
    /\ [][ last'.op = "add_vulnerability" =>
             \A x \in DOMAIN components \ {last'.id} :
                /\ vuln_risk(x)' = vuln_risk(x)
                /\ max_severity(x)' = max_severity(x)
                /\ vuln_factor(x)' = vuln_factor(x) ]_vars
    /\ [](\A x \in DOMAIN components : vuln_risk(x) = WorstSeverityScore(x))

\* ------------------------------------------------------------------------
\* C22
\* ------------------------------------------------------------------------

\* The day the run with locals `frame` compromised component c on: 0 for the
\* initial component, the day of its timeline events otherwise.
CompromiseDay(frame, c) ==
    IF c = frame.initial_compromise THEN 0
    ELSE CHOOSE d \in 0..frame.simulation_days :
           \E e \in frame.compromised_timeline : e.component_id = c /\ e.day = d

\* C22: every detection event names a component that is compromised on the
\* event's day and still is, and carries the number of days since that
\* component's compromise; a component has at most one detection event per
\* day; with detection_probability 0 there is no detection event, and with
\* detection_probability 1 every compromised component has one on the day
\* of its compromise and on every later day.
C22_Detection ==
    sim.pc = "day_loop" =>
        /\ \A d \in sim.detection_events :
              /\ d.component_id \in sim.current_compromised
              /\ components[d.component_id].is_compromised
              /\ CompromiseDay(sim, d.component_id) <= d.day
              /\ d.days_since_compromise = d.day - CompromiseDay(sim, d.component_id)
              /\ d.days_since_compromise >= 0
              /\ \A f \in sim.detection_events :
                    (f.component_id = d.component_id /\ f.day = d.day) => f = d
        /\ sim.detection_probability = 0 => sim.detection_events = {}
        /\ sim.detection_probability = DetectionDenominator =>
              \A c \in sim.current_compromised :
                 \A day \in CompromiseDay(sim, c)..(sim.day - 1) :
                    \E d \in sim.detection_events : d.component_id = c /\ d.day = day

\* A component was detected on the day of its compromise, and on a later
\* day it compromised a dependent of its own.
C22_Witness ==
    /\ sim.pc = "day_loop"
    /\ \E d \in sim.detection_events :
         /\ d.component_id # sim.initial_compromise
         /\ d.days_since_compromise = 0
         /\ \E e \in sim.compromised_timeline :
              e.source_component = d.component_id /\ e.day > d.day

\* ------------------------------------------------------------------------
\* C23
\* ------------------------------------------------------------------------

\* C23: in the dict simulate_attack_propagation returns,
\* final_compromised_components is the initial component and the components
\* of the timeline events, compromised_count is its size and lies between 1
\* and total_components, compromise_percentage is compromised_count /
\* total_components * 100 and at most 100, applications_affected counts the
\* applications in the set; during the run the compromised set only grows.
C23_ResultConsistent ==
    /\ []((/\ last.op = "simulate_attack_propagation"
           /\ last.raised = "none"
           /\ last.returned) =>
            LET result == last.value
                final == result.final_compromised_components
            IN /\ final = {result.initial_compromise}
                            \cup { e.component_id : e \in result.timeline }
               /\ result.compromised_count = Cardinality(final)
               /\ result.compromised_count >= 1
               /\ result.total_components = Cardinality(DOMAIN components)
               /\ result.compromised_count <= result.total_components
               /\ result.compromise_percentage =
                     [num |-> 100 * result.compromised_count,
                      den |-> result.total_components]
               /\ result.compromise_percentage.num <= 100 * result.compromise_percentage.den
               /\ result.applications_affected =
                     Cardinality({ c \in final :
                                     components[c].software_type = "application" }))
    /\ [][ (sim.pc = "day_loop" /\ sim'.pc = "day_loop") =>
             sim.current_compromised \subseteq sim'.current_compromised ]_vars

\* A run has returned with two applications compromised after the initial
\* library.
C23_Witness ==
    /\ last.op = "simulate_attack_propagation"
    /\ last.raised = "none"
    /\ last.returned
    /\ last.value.compromised_count = 3
    /\ last.value.applications_affected = 2
    /\ last.value.compromised_count = last.value.total_components

\* ------------------------------------------------------------------------
\* C24
\* ------------------------------------------------------------------------

\* The worst severity of the vulnerabilities of c, low when it has none
WorstSeverity(c) ==
    LET found == { v.severity : v \in AttachedVulnerabilities(c) }
    IN IF "critical" \in found THEN "critical"
       ELSE IF "high" \in found THEN "high"
       ELSE IF "medium" \in found THEN "medium"
       ELSE "low"

\* The type multiplier, in tenths
TypeMultiplier(software_type) ==
    CASE software_type = "application" -> 7
      [] software_type = "operating_system" -> 15
      [] software_type = "database" -> 13
      [] OTHER -> 10

\* C24: for a component of the store and a supported organization type,
\* calculate_time_to_patch returns trunc(T * m * j) for a jitter j, T the
\* base days of the organization type and the component's worst severity and
\* m the type multiplier; the result lies between trunc(0.8 * T * m) and
\* trunc(1.4 * T * m).
C24_SingleTruncation ==
    (/\ last.op = "calculate_time_to_patch"
     /\ last.id \in DOMAIN components
     /\ last.organization_type \in OrganizationTypes) =>
        LET T == base_times(last.organization_type, WorstSeverity(last.id))
            m == TypeMultiplier(components[last.id].software_type)
        IN /\ last.raised = "none"
           /\ \E j \in Variations : last.value = (T * m * j) \div 100
           /\ last.value >= (T * m * 8) \div 100
           /\ last.value <= (T * m * 14) \div 100

\* ------------------------------------------------------------------------
\* C25
\* ------------------------------------------------------------------------

\* The attributes of a component other than is_compromised and compromise_time
Structure(component) ==
    [name |-> component.name, version |-> component.version,
     software_type |-> component.software_type,
     criticality_score |-> component.criticality_score]

QueryOperations ==
    { "get_dependencies", "get_dependents", "calculate_impact_score",
      "find_critical_components", "get_graph_stats", "calculate_time_to_patch",
      "calculate_supply_chain_risk_score" }

\* C25: every step of simulate_attack_propagation, simulate_multiple_scenarios
\* and simulate_patching_race leaves the set of components, their name,
\* version, type and criticality, the typed edges and the vulnerability
\* table as they were; a query operation leaves the whole store as it was.
C25_Frame ==
    [][ /\ DOMAIN components' = DOMAIN components
        /\ \A id \in DOMAIN components :
              Structure(components'[id]) = Structure(components[id])
        /\ graph_edges' = graph_edges
        /\ vulnerabilities' = vulnerabilities
        /\ (last' # last /\ last'.op \in QueryOperations) =>
              UNCHANGED <<components, graph_edges, vulnerabilities>> ]_vars

\* get_graph_stats has returned after a simulation that compromised a
\* component other than its initial one.
C25_Witness ==
    /\ last.op = "get_graph_stats"
    /\ last.value.compromised_components >= 2
    /\ \E id \in DOMAIN components :
         components[id].is_compromised /\ components[id].compromise_time # None

\* ------------------------------------------------------------------------
\* C26
\* ------------------------------------------------------------------------

\* C26: in the run in progress, the component of an event of day d is at
\* most d hops downstream of the initial component (none on day 0); after n
\* days the compromised set holds, besides the initial component, only
\* transitive dependents of it within n - 1 hops, so only the initial
\* component after 0 or 1 days; the same holds of the returned set for the
\* simulation_days of the call.
C26_OneHopPerDay ==
    /\ sim.pc = "day_loop" =>
         /\ \A e \in sim.compromised_timeline :
               e.component_id \in WithinHops(TRUE, sim.initial_compromise, e.day)
         /\ sim.current_compromised \subseteq
               {sim.initial_compromise} \cup TransitiveDependents(sim.initial_compromise)
         /\ sim.current_compromised \subseteq
               {sim.initial_compromise}
                 \cup WithinHops(TRUE, sim.initial_compromise, Max(sim.day - 1, 0))
         /\ sim.day <= 1 => sim.current_compromised = {sim.initial_compromise}
    /\ (last.op = "simulate_attack_propagation" /\ last.raised = "none" /\ last.returned) =>
         last.value.final_compromised_components \subseteq
            {last.value.initial_compromise}
              \cup WithinHops(TRUE, last.value.initial_compromise,
                              Max(last.value.simulation_days - 1, 0))

\* On the chain without the shortcut edge, the component two hops from the
\* initial one was compromised on day 2.
C26_Witness ==
    /\ sim.pc = "day_loop"
    /\ sim.initial_compromise = IdC
    /\ <<IdC, IdA>> \notin DOMAIN graph_edges
    /\ \E e \in sim.compromised_timeline : e.component_id = IdA /\ e.day = 2

\* ------------------------------------------------------------------------
\* C27
\* ------------------------------------------------------------------------

\* C27: in the timeline of the run in progress no component has two events,
\* the initial component has none, and the number of events is the number of
\* compromised components minus one.
C27_OneEventPerComponent ==
    sim.pc = "day_loop" =>
        /\ \A e, f \in sim.compromised_timeline :
              e.component_id = f.component_id => e = f
        /\ \A e \in sim.compromised_timeline :
              e.component_id # sim.initial_compromise
        /\ Cardinality(sim.compromised_timeline) =
              Cardinality(sim.current_compromised) - 1

\* ------------------------------------------------------------------------
\* C28
\* ------------------------------------------------------------------------

\* C28: in every results[org_type] entry of simulate_patching_race the number
\* of vulnerable-window entries is at most compromised_count, so
\* components_saved_by_patching is not negative and patch_effectiveness lies
\* within [0, 100].
C28_EffectivenessInRange ==
    \A r \in RaceResults :
        /\ Cardinality(r[2].vulnerable_window_components)
              <= r[2].attack_result.compromised_count
        /\ r[2].components_saved_by_patching >= 0
        /\ r[2].patch_effectiveness.num >= 0
        /\ r[2].patch_effectiveness.num <= 100 * r[2].patch_effectiveness.den

\* ------------------------------------------------------------------------
\* C29
\* ------------------------------------------------------------------------

\* The component fields say what a run from `initial` at `start_time` with
\* the compromised set `compromised` and the given timeline tracked.
FieldsAgree(initial, start_time, compromised, timeline) ==
    \A id \in DOMAIN components :
        /\ components[id].is_compromised = (id \in compromised)
        /\ (components[id].compromise_time # None) = (id \in compromised)
        /\ id = initial => components[id].compromise_time = Some(start_time)
        /\ (id \in compromised /\ id # initial) =>
              /\ \E e \in timeline : e.component_id = id
              /\ \A e \in timeline :
                    e.component_id = id =>
                       components[id].compromise_time = Some(start_time + e.day)

\* C29: at the start of the day loop, after every day and when the run has
\* returned, is_compromised and compromise_time of every component agree
\* with the run's compromised set and timeline, and get_graph_stats counts
\* exactly the compromised set.
C29_FieldsAgreeWithTracking ==
    /\ sim.pc = "day_loop" =>
         /\ FieldsAgree(sim.initial_compromise, sim.start_time,
                        sim.current_compromised, sim.compromised_timeline)
         /\ get_graph_stats.compromised_components = Cardinality(sim.current_compromised)
    /\ (last.op = "simulate_attack_propagation" /\ last.raised = "none" /\ last.returned) =>
         /\ \E start_time \in StartTimes :
               FieldsAgree(last.value.initial_compromise, start_time,
                           last.value.final_compromised_components, last.value.timeline)
         /\ get_graph_stats.compromised_components = last.value.compromised_count

\* A run on a graph whose middle component carried a zero-day has returned
\* with the leaf compromised on day 2 and the middle component on day 1.
C29_Witness ==
    /\ last.op = "simulate_attack_propagation"
    /\ last.raised = "none"
    /\ last.returned
    /\ vulnerabilities # EmptyDict
    /\ last.value.initial_compromise = IdC
    /\ components[IdB].compromise_time = Some(11)
    /\ components[IdA].compromise_time = Some(12)

\* ------------------------------------------------------------------------
\* C30
\* ------------------------------------------------------------------------

\* Component c carries a vulnerability without a patch.
HasZeroDay(c) == \E v \in AttachedVulnerabilities(c) : ~v.patch_available

\* C30 as stated: in every reachable state each component that carries a
\* vulnerability without a patch is compromised.
C30_AsStated ==
    \A c \in DOMAIN components : HasZeroDay(c) => components[c].is_compromised

\* C30: a component that carries a vulnerability without a patch is
\* compromised when add_vulnerability returns, and stays compromised through
\* every step other than add_component of the same id and the reset at the
\* start of a simulate_attack_propagation run.
C30_UntilResetOrReplaced ==
    [][ /\ (/\ last'.op = "add_vulnerability"
            /\ last'.id \in DOMAIN components
            /\ ~last'.vulnerability.patch_available) =>
              /\ Join(last'.id, last'.vulnerability.cve_id) \in DOMAIN vulnerabilities'
              /\ components'[last'.id].is_compromised
        /\ \A c \in DOMAIN components :
              (/\ HasZeroDay(c)
               /\ components[c].is_compromised
               /\ ~(last'.op = "add_component" /\ last'.id = c)
               /\ ~(sim.pc = "idle" /\ sim'.pc = "day_loop")) =>
                 components'[c].is_compromised ]_vars

\* A component marked by a zero-day is still marked after a later
\* add_dependency that made it a dependency of another component.
C30_Witness ==
    /\ last.op = "add_dependency"
    /\ <<last.dependency_id, last.dependent_id>> \in DOMAIN graph_edges
    /\ last.dependency_id # last.dependent_id
    /\ HasZeroDay(last.dependency_id)
    /\ components[last.dependency_id].is_compromised
    /\ components[last.dependency_id].compromise_time # None

=============================================================================
